---- MODULE Spec2Model ----
(***************************************************************************)
(* Graph construction and inflation engine of koreo-ts.                    *)
(*                                                                         *)
(* The builder (src/src/api/graphs.ts) resolves a workflow and its steps   *)
(* into an internal graph; the inflater (src/src/api/inflated-graphs.ts)   *)
(* turns that graph into the collapsed or the expanded presentation graph. *)
(* Both are modelled as operators computed the way the code computes them; *)
(* the actions below run the exported entry points against a cluster       *)
(* ("world") drawn from a bounded family of clusters.                      *)
(*                                                                         *)
(* JavaScript records keyed by string (Record<string, T>) are modelled as  *)
(* sequences in insertion order with overwrite-in-place, which is the      *)
(* iteration order of Object.values for non-numeric keys.                  *)
(*                                                                         *)
(* Spec runs whole requests; TaskSpec follows one build of the root        *)
(* workflow through its concurrently issued step tasks, which settle in    *)
(* any order before the edge pass.                                         *)
(***************************************************************************)
EXTENDS Integers, Sequences, FiniteSets, TLC

VARIABLES world, pc, request, kgraph, inflated, uuidCount, history,
          koreoNodes, phase, settled, build, result

vars == <<world, pc, request, kgraph, inflated, uuidCount, history,
          koreoNodes, phase, settled, build, result>>

\* The state of the request as a whole, and that of one build of the root
\* workflow followed task by task.
requestVars == <<pc, request, kgraph, inflated, uuidCount, history, koreoNodes>>
taskVars == <<phase, settled, build, result>>

\* ------------------------------------------------------------------ bounds

\* How many graph requests one behaviour issues against the same cluster.
MaxRuns == 2

\* Recursion budget of the builder: nesting depth of sub-workflow calls the
\* model follows before it reports the build as not terminating.
MaxDepth == 4

\* ----------------------------------------------------------------- strings

\* A string is a sequence of one-character strings.
STEPS == <<"s", "t", "e", "p", "s", ".">>

\* The class [a-zA-Z0-9_-] of the regular expression.
LabelChars ==
  { "a", "b", "c", "d", "e", "f", "g", "h", "i", "j", "k", "l", "m",
    "n", "o", "p", "q", "r", "s", "t", "u", "v", "w", "x", "y", "z",
    "A", "B", "C", "D", "E", "F", "G", "H", "I", "J", "K", "L", "M",
    "N", "O", "P", "Q", "R", "S", "T", "U", "V", "W", "X", "Y", "Z",
    "0", "1", "2", "3", "4", "5", "6", "7", "8", "9", "_", "-" }

WhiteSpace == {" "}

RECURSIVE Join(_)
Join(cs) == IF cs = <<>> THEN "" ELSE Head(cs) \o Join(Tail(cs))

RECURSIVE JoinWith(_, _)
JoinWith(strs, sep) ==
  IF strs = <<>> THEN ""
  ELSE IF Len(strs) = 1 THEN strs[1]
  ELSE strs[1] \o sep \o JoinWith(Tail(strs), sep)

\* String.prototype.trim, as far as startsWith can see it: the leading part.
RECURSIVE TrimStart(_)
TrimStart(s) ==
  IF s # <<>> /\ Head(s) \in WhiteSpace THEN TrimStart(Tail(s)) ELSE s

StartsWithExpressionMarkerAlways(s) == TRUE

StartsWithExpressionMarker(s) ==
  LET t == TrimStart(s) IN t # <<>> /\ Head(t) = "="

\* Last index of the run of label characters that starts at i.
RECURSIVE RunEnd(_, _)
RunEnd(s, i) ==
  IF i + 1 <= Len(s) /\ s[i + 1] \in LabelChars THEN RunEnd(s, i + 1) ELSE i

\* [...val.matchAll(/steps\.([a-zA-Z0-9_-]+)/g)].map(m => m[1]): leftmost,
\* non-overlapping, the label taken greedily.
RECURSIVE MatchAllFrom(_, _)
MatchAllFrom(s, i) ==
  IF i + 6 > Len(s) THEN <<>>
  ELSE IF SubSeq(s, i, i + 5) = STEPS /\ s[i + 6] \in LabelChars
    THEN LET j == RunEnd(s, i + 6)
         IN <<Join(SubSeq(s, i + 6, j))>> \o MatchAllFrom(s, j + 1)
    ELSE MatchAllFrom(s, i + 1)

MatchAll(s) == MatchAllFrom(s, 1)

\* ------------------------------------------------------------------ values

\* An arbitrary nested value (step inputs, itemIn, switchOn).
VUndef == [t |-> "undef"]
VNum == [t |-> "num"]
VStr(s) == [t |-> "str", s |-> s]
VArr(items) == [t |-> "arr", items |-> items]
VObj(items) == [t |-> "obj", items |-> items]

\* The labels processValue reports for a value, in the order it meets them.
RECURSIVE ProcessValue(_)
RECURSIVE ProcessValues(_)
ProcessValue(val) ==
  IF val.t = "str"
    THEN IF StartsWithExpressionMarker(val.s) THEN MatchAll(val.s) ELSE <<>>
  ELSE IF val.t \in {"arr", "obj"} THEN ProcessValues(val.items)
  ELSE <<>>

ProcessValues(items) ==
  IF items = <<>> THEN <<>>
  ELSE ProcessValue(Head(items)) \o ProcessValues(Tail(items))

\* ------------------------------------------------------------- graph parts

EmptyGraph == [nodes |-> <<>>, edges |-> <<>>, managedResources |-> <<>>]

NoKrm == [kind |-> "", name |-> "", uid |-> ""]

KNodeOf(id, type, krm, label) ==
  [id |-> id, type |-> type, krm |-> krm, label |-> label,
   switchOn |-> <<>>, caseNodes |-> <<>>, workflowGraph |-> EmptyGraph,
   workflowLeafNodeIds |-> <<>>, managedResources |-> <<>>]

Has(seq, id) == \E i \in 1..Len(seq) : seq[i].id = id

Get(seq, id) == seq[CHOOSE i \in 1..Len(seq) : seq[i].id = id]

\* record[key] = value on a JavaScript object: a new key is appended, an
\* existing key keeps its place.
PutAppendOnly(seq, item) == Append(seq, item)

Put(seq, item) ==
  IF Has(seq, item.id)
    THEN [i \in 1..Len(seq) |-> IF seq[i].id = item.id THEN item ELSE seq[i]]
    ELSE Append(seq, item)

MapPut(m, k, v) == [x \in DOMAIN m \cup {k} |-> IF x = k THEN v ELSE m[x]]

EmptyMap == [x \in {} |-> ""]

\* uuidv4(): a token no earlier call returned.
UuidV4(uc) == "uuid-" \o ToString(uc)

CreateEdge(source, target, type) ==
  [id |-> source \o ":" \o target, source |-> source, target |-> target,
   type |-> type]

\* ------------------------------------------------- managed-resource payload

\* A decoded JSON value. An object is a function from its keys to values.
JUndef == [t |-> "undef"]
JNull == [t |-> "null"]
JStr(s) == [t |-> "str", s |-> s]
JBool(b) == [t |-> "bool", b |-> b]
JObj(f) == [t |-> "obj", f |-> f]
JArr(items) == [t |-> "arr", items |-> items]

\* !value
Falsy(v) ==
  \/ v.t \in {"undef", "null"}
  \/ v.t = "str" /\ v.s = ""
  \/ v.t = "bool" /\ ~v.b

\* value?.[key]
JGet(v, key) ==
  IF v.t = "obj" /\ key \in DOMAIN v.f THEN v.f[key] ELSE JUndef

ResourceKeys == {"apiVersion", "kind", "name", "readonly", "resourceFunction"}

IsKubernetesResourceAnyKey(value) ==
  /\ value.t \in {"obj", "arr"}
  /\ value.t = "obj"
  /\ \E k \in ResourceKeys : k \in DOMAIN value.f

IsKubernetesResource(value) ==
  /\ value.t \in {"obj", "arr"}
  /\ value.t = "obj"
  /\ \A k \in ResourceKeys : k \in DOMAIN value.f

IsManagedResources(value) ==
  /\ value.t \in {"obj", "arr"}
  /\ value.t # "arr"
  /\ ~IsKubernetesResource(value)

IsKubernetesResourceOrManagedResourcesArray(value) ==
  /\ value.t = "arr"
  /\ \A i \in 1..Len(value.items) :
       IsKubernetesResource(value.items[i]) \/ IsManagedResources(value.items[i])

DefaultManagedResources ==
  JObj([k \in {"workflow", "resources"} |->
         IF k = "workflow" THEN JStr("") ELSE JObj([x \in {} |-> JNull])])

\* The annotation of an instance is one of: no annotations map on the
\* metadata ("nomap"), no such key ("nokey"), text that JSON.parse rejects
\* ("malformed"), or the text of a JSON value ("json", with the value).
ParseManagedResources(parent) ==
  IF parent.annotation.kind = "nomap"
    THEN [st |-> "error", val |-> JUndef]
  ELSE IF parent.annotation.kind = "nokey"
    THEN [st |-> "ok", val |-> DefaultManagedResources]
  ELSE IF parent.annotation.kind = "malformed"
    THEN [st |-> "ok", val |-> DefaultManagedResources]
  ELSE [st |-> "ok", val |-> parent.annotation.value]

NoList == [def |-> FALSE, list |-> <<>>]
SomeList(l) == [def |-> TRUE, list |-> l]

SelectSeq2KeepAll(items, key, name) == items

RECURSIVE SelectSeq2(_, _, _)
SelectSeq2(items, key, name) ==
  IF items = <<>> THEN <<>>
  ELSE LET it == Head(items)
           keep == IF key = "workflow"
                     THEN IsManagedResources(it) /\ JGet(it, key) = JStr(name)
                     ELSE IsKubernetesResource(it) /\ JGet(it, key) = JStr(name)
       IN (IF keep THEN <<it>> ELSE <<>>) \o SelectSeq2(Tail(items), key, name)

GetManagedResourcesForWorkflow(workflowId, managedResource) ==
  IF Falsy(managedResource) THEN NoList
  ELSE IF IsManagedResources(managedResource)
          /\ JGet(managedResource, "workflow") = JStr(workflowId)
    THEN SomeList(<<managedResource>>)
  ELSE IF IsKubernetesResourceOrManagedResourcesArray(managedResource)
    THEN SomeList(SelectSeq2(managedResource.items, "workflow", workflowId))
  ELSE NoList

GetManagedResourcesForResourceFunction(functionId, managedResource) ==
  IF Falsy(managedResource) THEN NoList
  ELSE IF IsKubernetesResource(managedResource)
          /\ JGet(managedResource, "resourceFunction") = JStr(functionId)
    THEN SomeList(<<managedResource>>)
  ELSE IF IsKubernetesResourceOrManagedResourcesArray(managedResource)
    THEN SomeList(SelectSeq2(managedResource.items, "resourceFunction", functionId))
  ELSE NoList

\* ------------------------------------------------------------ fetch facade

\* What a call of the Kubernetes client does: it resolves with the object,
\* rejects the promise it returned (an HTTP error such as 404, a transport
\* failure), or throws before returning a promise.
ApiOutcomes == {"resolved", "rejected", "thrown"}

NoObj == [outcome |-> "rejected"]

Fetched(st, found, val) == [st |-> st, found |-> found, val |-> val]

\* try { return api.get(...) } catch { return null }: the promise is returned
\* without being awaited, so only a synchronous throw reaches the catch.
ReturnWithoutAwaitCatchesAll(obj) ==
  IF obj.outcome = "resolved" THEN Fetched("ok", TRUE, obj)
  ELSE Fetched("ok", FALSE, NoObj)

ReturnWithoutAwait(obj) ==
  IF obj.outcome = "resolved" THEN Fetched("ok", TRUE, obj)
  ELSE IF obj.outcome = "thrown" THEN Fetched("ok", FALSE, NoObj)
  ELSE Fetched("error", FALSE, NoObj)

\* try { const r = await api.read(...); return r } catch { return null }
ReturnAwaited(obj) ==
  IF obj.outcome = "resolved" THEN Fetched("ok", TRUE, obj)
  ELSE Fetched("ok", FALSE, NoObj)

GetWorkflow(w, workflowId) ==
  ReturnWithoutAwait(IF workflowId \in DOMAIN w.workflows
                       THEN w.workflows[workflowId] ELSE NoObj)

GetValueFunction(w, functionId) ==
  ReturnWithoutAwait(IF functionId \in DOMAIN w.functions
                        /\ w.functions[functionId].kind = "ValueFunction"
                       THEN w.functions[functionId] ELSE NoObj)

GetResourceFunction(w, functionId) ==
  ReturnWithoutAwait(IF functionId \in DOMAIN w.functions
                        /\ w.functions[functionId].kind = "ResourceFunction"
                       THEN w.functions[functionId] ELSE NoObj)

GetWorkflowInstance(w, workflow, instanceId) ==
  IF ~workflow.crdRef \/ ~workflow.namespaced
    THEN Fetched("ok", FALSE, NoObj)
    ELSE ReturnWithoutAwait(IF instanceId \in DOMAIN w.instances
                              THEN w.instances[instanceId] ELSE NoObj)

GetKubernetesResource(w, resource) ==
  LET name == JGet(resource, "name")
  IN ReturnAwaited(IF name.t = "str" /\ name.s \in DOMAIN w.resources
                     THEN w.resources[name.s] ELSE NoObj)

KrmOf(obj) == [kind |-> obj.kind, name |-> obj.name, uid |-> obj.uid]

\* ----------------------------------------------------------------- builder

\* metadata?.uid || uuidv4(): the id, and the uuid counter after it.
IdOrFresh(uid, uc) ==
  IF uid # "" THEN [id |-> uid, uc |-> uc] ELSE [id |-> UuidV4(uc), uc |-> uc + 1]

CreateWorkflowNode(workflow, stepLabel, uc) ==
  LET i == IdOrFresh(workflow.uid, uc)
  IN [node |-> KNodeOf(i.id, "Workflow", KrmOf(workflow), stepLabel), uc |-> i.uc]

CreateValueFunctionNode(logic, stepLabel, uc) ==
  LET i == IdOrFresh(logic.uid, uc)
  IN [node |-> KNodeOf(i.id, "ValueFunction", KrmOf(logic), stepLabel), uc |-> i.uc]

CreateResourceFunctionNode(logic, stepLabel, uc) ==
  LET i == IdOrFresh(logic.uid, uc)
  IN [node |-> KNodeOf(i.id, "ResourceFunction", KrmOf(logic), stepLabel), uc |-> i.uc]

CreateParentNode(parent, uc) ==
  LET i == IdOrFresh(parent.uid, uc)
  IN [node |-> KNodeOf(i.id, "Parent", KrmOf(parent), ""), uc |-> i.uc]

CaseNodeIds(caseNodes) == [i \in 1..Len(caseNodes) |-> caseNodes[i].node.id]

CreateRefSwitchNode(switchOn, caseNodes, managedResources, stepLabel) ==
  [KNodeOf("switch-" \o JoinWith(CaseNodeIds(caseNodes), "-"), "RefSwitch",
           NoKrm, stepLabel)
     EXCEPT !.switchOn = switchOn, !.caseNodes = caseNodes,
            !.managedResources = managedResources]

CreateSubWorkflowNode(workflowNode, workflowGraph, workflowLeafNodeIds, uc) ==
  LET id == IF workflowNode.krm.uid # ""
              THEN "sub-" \o workflowNode.krm.uid ELSE "sub-" \o UuidV4(uc)
  IN [node |-> [KNodeOf(id, "SubWorkflow", NoKrm, "")
                  EXCEPT !.workflowGraph = workflowGraph,
                         !.workflowLeafNodeIds = workflowLeafNodeIds],
      uc |-> IF workflowNode.krm.uid # "" THEN uc ELSE uc + 1]

\* Promise.all(managedResource.map(addManagedResource)): every descriptor whose
\* live object is fetched is pushed on the node.
RECURSIVE AddManagedResources(_, _)
AddManagedResources(w, descriptors) ==
  IF descriptors = <<>> THEN <<>>
  ELSE LET r == GetKubernetesResource(w, Head(descriptors))
           ro == JGet(Head(descriptors), "readonly")
       IN (IF r.found
             THEN <<[resource |-> KrmOf(r.val),
                     readonly |-> ro.t = "bool" /\ ro.b]>>
             ELSE <<>>)
          \o AddManagedResources(w, Tail(descriptors))

NodeResult(st, found, node, uc) ==
  [st |-> st, found |-> found, node |-> node, uc |-> uc]

NoNode == KNodeOf("", "", NoKrm, "")

GetValueFunctionNode(w, name, stepLabel, uc) ==
  LET func == GetValueFunction(w, name)
  IN IF func.st # "ok" THEN NodeResult(func.st, FALSE, NoNode, uc)
     ELSE IF ~func.found THEN NodeResult("ok", FALSE, NoNode, uc)
     ELSE LET c == CreateValueFunctionNode(func.val, stepLabel, uc)
          IN NodeResult("ok", TRUE, c.node, c.uc)

GetResourceFunctionNode(w, name, stepLabel, managedResource, uc) ==
  LET func == GetResourceFunction(w, name)
  IN IF func.st # "ok" THEN NodeResult(func.st, FALSE, NoNode, uc)
     ELSE IF ~func.found THEN NodeResult("ok", FALSE, NoNode, uc)
     ELSE LET c == CreateResourceFunctionNode(func.val, stepLabel, uc)
          IN IF ~managedResource.def THEN NodeResult("ok", TRUE, c.node, c.uc)
             ELSE NodeResult("ok", TRUE,
                    [c.node EXCEPT !.managedResources =
                       AddManagedResources(w, managedResource.list)], c.uc)

\* The result of one call of getWorkflowGraphWithLeafNodes. st is "ok" when
\* the promise resolves, "error" when it rejects, "diverged" when the call
\* does not return within the recursion budget.
BuildResult(st, graph, leafNodes, stepNodes, uc) ==
  [st |-> st, graph |-> graph, leafNodes |-> leafNodes,
   stepNodes |-> stepNodes, uc |-> uc]

NoBuild(st, uc) == BuildResult(st, EmptyGraph, <<>>, EmptyMap, uc)

\* Promise.all over tasks: a rejection rejects the whole, whatever the others
\* do; otherwise a task that never settles keeps the whole pending.
JoinStatus(a, b) ==
  IF a = "error" \/ b = "error" THEN "error"
  ELSE IF a = "diverged" \/ b = "diverged" THEN "diverged"
  ELSE "ok"

\* The managed resources of the ResourceFunction nodes of one iteration's
\* graph are pushed on the nodes of the same id of the first graph.
MergeIterationResources(nodes, iterationNodes) ==
  [i \in 1..Len(nodes) |->
     IF nodes[i].type = "ResourceFunction" /\ Has(iterationNodes, nodes[i].id)
        /\ Get(iterationNodes, nodes[i].id).type = "ResourceFunction"
       THEN [nodes[i] EXCEPT !.managedResources =
               @ \o Get(iterationNodes, nodes[i].id).managedResources]
       ELSE nodes[i]]

RECURSIVE GetWorkflowGraphWithLeafNodes(_, _, _, _, _, _, _)
RECURSIVE SubWorkflowIterations(_, _, _, _, _, _, _)
RECURSIVE GetSubWorkflowNode(_, _, _, _, _, _)
RECURSIVE AddRefSwitchCases(_, _, _, _, _, _, _)
RECURSIVE AddStepNodes(_, _, _, _, _)
RECURSIVE GetStepNode(_, _, _, _, _, _)
RECURSIVE AddAllStepNodes(_, _, _, _, _)

\* One iteration of the for loop of getSubWorkflowNode, given the graph r
\* built for it. acc = [st, nodes, resources, uc].
IterationMerged(acc, r) ==
  [st |-> r.st,
   nodes |-> MergeIterationResources(acc.nodes, r.graph.nodes),
   resources |-> acc.resources \o r.graph.managedResources,
   uc |-> r.uc]

\* The for loop of getSubWorkflowNode over the iterations' managed resources.
SubWorkflowIterations(w, stepLabel, subWorkflowId, iterations, acc, fuel, k) ==
  IF k > Len(iterations) \/ acc.st # "ok" THEN acc
  ELSE SubWorkflowIterations(w, stepLabel, subWorkflowId, iterations,
         IterationMerged(acc,
           GetWorkflowGraphWithLeafNodes(w, subWorkflowId, stepLabel, "",
                                         iterations[k], acc.uc, fuel)),
         fuel, k + 1)

\* The end of getSubWorkflowNode: the node c.node with the nodes and the
\* resources the iterations it left.
SubWorkflowNodeWithResources(r, c, it) ==
  IF it.st # "ok" THEN NodeResult(it.st, FALSE, NoNode, it.uc)
  ELSE NodeResult("ok", TRUE,
         [c.node EXCEPT !.workflowGraph =
            [nodes |-> it.nodes, edges |-> r.graph.edges,
             managedResources |-> it.resources]],
         it.uc)

SubWorkflowNodeCreated(w, stepLabel, subWorkflowId, managedResources, fuel, r, c) ==
  IF ~managedResources.def THEN NodeResult("ok", TRUE, c.node, c.uc)
  ELSE SubWorkflowNodeWithResources(r, c,
         SubWorkflowIterations(w, stepLabel, subWorkflowId, managedResources.list,
           [st |-> "ok", nodes |-> r.graph.nodes, resources |-> <<>>, uc |-> c.uc],
           fuel, 1))

\* getSubWorkflowNode after its first await, r being the graph of the
\* sub-workflow. workflowGraph.nodes is an array, never falsy; nodes[0] of an
\* empty array is undefined and reading its krm throws.
SubWorkflowNodeFrom(w, stepLabel, subWorkflowId, managedResources, fuel, r) ==
  IF r.st # "ok" THEN NodeResult(r.st, FALSE, NoNode, r.uc)
  ELSE IF r.graph.nodes = <<>> THEN NodeResult("error", FALSE, NoNode, r.uc)
  ELSE SubWorkflowNodeCreated(w, stepLabel, subWorkflowId, managedResources, fuel, r,
         CreateSubWorkflowNode(r.graph.nodes[1], r.graph, r.leafNodes, r.uc))

GetSubWorkflowNode(w, stepLabel, subWorkflowId, managedResources, uc, fuel) ==
  SubWorkflowNodeFrom(w, stepLabel, subWorkflowId, managedResources, fuel,
    GetWorkflowGraphWithLeafNodes(w, subWorkflowId, stepLabel, "", JUndef, uc, fuel))

\* What a node of the given kind pushes on the managed resources of the graph
\* or of the switch it is added to.
ResourcesOf(kind, r) ==
  IF ~r.found THEN <<>>
  ELSE IF kind = "Workflow" THEN r.node.workflowGraph.managedResources
  ELSE IF kind = "ValueFunction" THEN <<>>
  ELSE r.node.managedResources

\* The end of one iteration of the for loop of addRefSwitchNode, r being the
\* node built for the case. acc = [st, caseNodes, resources, uc].
CaseAdded(acc, switchCase, r) ==
  [st |-> r.st,
   caseNodes |-> IF r.found
                   THEN Put(acc.caseNodes, [id |-> switchCase.case, node |-> r.node])
                   ELSE acc.caseNodes,
   resources |-> acc.resources \o ResourcesOf(switchCase.kind, r),
   uc |-> r.uc]

\* The for loop of addRefSwitchNode over the cases, one awaited at a time.
AddRefSwitchCases(w, cases, stepLabel, managedResource, acc, fuel, k) ==
  IF k > Len(cases) \/ acc.st # "ok" THEN acc
  ELSE AddRefSwitchCases(w, cases, stepLabel, managedResource,
         CaseAdded(acc, cases[k],
           GetStepNode(w, cases[k], stepLabel, managedResource, acc.uc, fuel)),
         fuel, k + 1)

\* b = [st, nodes, managedResources, stepNodes, uc]: the deduped graph and the
\* label -> id index the step tasks of one workflow write.
RefSwitchNodeAdded(b, stepLabel, c, refSwitchNode) ==
  IF c.st # "ok" THEN [b EXCEPT !.st = JoinStatus(b.st, c.st), !.uc = c.uc]
  ELSE [b EXCEPT !.nodes = Put(@, refSwitchNode),
                 !.stepNodes = MapPut(@, stepLabel, refSwitchNode.id),
                 !.managedResources = @ \o c.resources,
                 !.uc = c.uc]

RefSwitchCasesDone(b, refSwitch, stepLabel, c) ==
  RefSwitchNodeAdded(b, stepLabel, c,
    CreateRefSwitchNode(refSwitch.switchOn, c.caseNodes, c.resources, stepLabel))

AddRefSwitchNode(w, b, refSwitch, stepLabel, managedResource, fuel) ==
  RefSwitchCasesDone(b, refSwitch, stepLabel,
    AddRefSwitchCases(w, refSwitch.cases, stepLabel, managedResource,
      [st |-> "ok", caseNodes |-> <<>>, resources |-> <<>>, uc |-> b.uc], fuel, 1))

\* The end of addStepNodes for a ref step of the given kind, r being the node
\* built for it.
StepNodeAdded(b, stepLabel, kind, r) ==
  IF r.st # "ok" THEN [b EXCEPT !.st = JoinStatus(b.st, r.st), !.uc = r.uc]
  ELSE IF ~r.found THEN b
  ELSE [b EXCEPT !.nodes = Put(@, r.node),
                 !.stepNodes = MapPut(@, stepLabel, r.node.id),
                 !.managedResources = @ \o ResourcesOf(kind, r),
                 !.uc = r.uc]

\* managedResources?.resources?.[stepLabel]
StepEntry(managedResources, stepLabel) ==
  JGet(JGet(managedResources, "resources"), stepLabel)

GetStepNode(w, ref, stepLabel, entry, uc, fuel) ==
  IF ref.kind = "Workflow"
    THEN GetSubWorkflowNode(w, stepLabel, ref.name,
           GetManagedResourcesForWorkflow(ref.name, entry), uc, fuel)
  ELSE IF ref.kind = "ValueFunction"
    THEN GetValueFunctionNode(w, ref.name, stepLabel, uc)
  ELSE GetResourceFunctionNode(w, ref.name, stepLabel,
         GetManagedResourcesForResourceFunction(ref.name, entry), uc)

AddStepNodes(w, step, b, managedResources, fuel) ==
  IF ~step.refSwitch.present /\ ~step.ref.present THEN b
  ELSE IF step.refSwitch.present
    THEN AddRefSwitchNode(w, b, step.refSwitch, step.label,
                          StepEntry(managedResources, step.label), fuel)
  ELSE StepNodeAdded(b, step.label, step.ref.kind,
         GetStepNode(w, step.ref, step.label,
                     StepEntry(managedResources, step.label), b.uc, fuel))

\* await Promise.all(steps.map(addStepNodes)), the tasks settling in the
\* order of the steps.
AddAllStepNodes(w, steps, b, managedResources, fuel) ==
  IF steps = <<>> THEN b
  ELSE AddAllStepNodes(w, Tail(steps),
         AddStepNodes(w, Head(steps), b, managedResources, fuel),
         managedResources, fuel)

\* g = [edges, nodesWithDependents]. One StepToStep edge per match whose
\* label is in the index and whose node is in the graph.
RECURSIVE AddDependencyEdges(_, _, _, _, _)
AddDependencyEdges(labels, stepNodeId, stepNodes, nodes, g) ==
  IF labels = <<>> THEN g
  ELSE LET parentLabel == Head(labels)
           resolved == parentLabel \in DOMAIN stepNodes
                       /\ Has(nodes, stepNodes[parentLabel])
       IN AddDependencyEdges(Tail(labels), stepNodeId, stepNodes, nodes,
            IF resolved
              THEN [edges |-> Put(g.edges,
                                  CreateEdge(stepNodes[parentLabel], stepNodeId, "StepToStep")),
                    nodesWithDependents |-> g.nodesWithDependents \cup {stepNodes[parentLabel]}]
              ELSE g)

FindAndAddStepDependenciesFirstOnly(value, stepNodeId, stepNodes, nodes, g) ==
  LET labels == ProcessValue(value)
  IN [found |-> labels # <<>>,
      g |-> AddDependencyEdges(IF labels = <<>> THEN <<>> ELSE <<Head(labels)>>,
                             stepNodeId, stepNodes, nodes, g)]

FindAndAddStepDependencies(value, stepNodeId, stepNodes, nodes, g) ==
  LET labels == ProcessValue(value)
  IN [found |-> labels # <<>>,
      g |-> AddDependencyEdges(labels, stepNodeId, stepNodes, nodes, g)]

\* The body of the edge pass for one step.
EdgePassStep(step, workflowNodeId, stepNodes, nodes, g) ==
  IF step.label \notin DOMAIN stepNodes \/ ~Has(nodes, stepNodes[step.label]) THEN g
  ELSE LET id == stepNodes[step.label]
           r1 == IF step.inputs.t # "undef"
                   THEN FindAndAddStepDependencies(step.inputs, id, stepNodes, nodes, g)
                   ELSE [found |-> FALSE, g |-> g]
           r2 == IF step.forEach.present
                   THEN FindAndAddStepDependencies(step.forEach.itemIn, id, stepNodes, nodes, r1.g)
                   ELSE [found |-> FALSE, g |-> r1.g]
           r3 == IF step.refSwitch.present
                   THEN FindAndAddStepDependencies(VStr(step.refSwitch.switchOn), id,
                                                   stepNodes, nodes, r2.g)
                   ELSE [found |-> FALSE, g |-> r2.g]
       IN IF r1.found \/ r2.found \/ r3.found THEN r3.g
          ELSE [r3.g EXCEPT !.edges =
                  Put(@, CreateEdge(workflowNodeId, id, "WorkflowToStep"))]

RECURSIVE EdgePass(_, _, _, _, _)
EdgePass(steps, workflowNodeId, stepNodes, nodes, g) ==
  IF steps = <<>> THEN g
  ELSE EdgePass(Tail(steps), workflowNodeId, stepNodes, nodes,
                EdgePassStep(Head(steps), workflowNodeId, stepNodes, nodes, g))

\* Object.values(stepNodes) without repetitions, in the order of the steps.
RECURSIVE StepNodeIds(_, _, _)
StepNodeIds(steps, stepNodes, seen) ==
  IF steps = <<>> THEN <<>>
  ELSE LET l == Head(steps).label
           new == l \in DOMAIN stepNodes /\ stepNodes[l] \notin seen
       IN (IF new THEN <<stepNodes[l]>> ELSE <<>>)
          \o StepNodeIds(Tail(steps), stepNodes,
                         IF new THEN seen \cup {stepNodes[l]} ELSE seen)

LeafNodesAll(steps, stepNodes, nodesWithDependents) ==
  StepNodeIds(steps, stepNodes, {})

LeafNodes(steps, stepNodes, nodesWithDependents) ==
  SelectSeq(StepNodeIds(steps, stepNodes, {}),
            LAMBDA id : id \notin nodesWithDependents)

\* Steps 5 and 6 of the build: the graph and the leaves, g being what the
\* edge pass left.
BuildFinished(workflow, b, g) ==
  BuildResult("ok",
    [nodes |-> b.nodes, edges |-> g.edges, managedResources |-> b.managedResources],
    LeafNodes(workflow.steps, b.stepNodes, g.nodesWithDependents),
    b.stepNodes, b.uc)

\* The build after the join of the step tasks, b being what they left.
StepsJoined(workflow, workflowNodeId, edges0, b) ==
  IF b.st # "ok" THEN NoBuild(b.st, b.uc)
  ELSE BuildFinished(workflow, b,
         EdgePass(workflow.steps, workflowNodeId, b.stepNodes, b.nodes,
                  [edges |-> edges0, nodesWithDependents |-> {}]))

BuildSteps(w, workflow, workflowNodeId, nodes0, edges0, managedResources, uc, fuel) ==
  StepsJoined(workflow, workflowNodeId, edges0,
    AddAllStepNodes(w, workflow.steps,
      [st |-> "ok", nodes |-> nodes0, managedResources |-> <<>>,
       stepNodes |-> EmptyMap, uc |-> uc],
      managedResources, fuel - 1))

\* The instance was found: its node, the edge to the workflow and its
\* annotation, which replaces the managed resources passed in.
BuildWithParent(w, workflow, workflowNode, pn, parsed, fuel) ==
  IF parsed.st # "ok" THEN NoBuild("error", pn.uc)
  ELSE BuildSteps(w, workflow, workflowNode.id,
         Put(<<workflowNode>>, pn.node),
         <<CreateEdge(pn.node.id, workflowNode.id, "ParentToWorkflow")>>,
         parsed.val, pn.uc, fuel)

WorkflowNodeOnly(workflowNode) == [EmptyGraph EXCEPT !.nodes = <<workflowNode>>]

BuildWithInstance(w, workflow, wn, parent, fuel) ==
  IF parent.st # "ok" THEN NoBuild("error", wn.uc)
  ELSE IF ~parent.found
    THEN BuildResult("ok", WorkflowNodeOnly(wn.node), <<>>, EmptyMap, wn.uc)
  ELSE BuildWithParent(w, workflow, wn.node, CreateParentNode(parent.val, wn.uc),
                       ParseManagedResources(parent.val), fuel)

BuildFound(w, workflow, instanceId, managedResources, wn, fuel) ==
  IF instanceId # ""
    THEN BuildWithInstance(w, workflow, wn,
                           GetWorkflowInstance(w, workflow, instanceId), fuel)
    ELSE BuildSteps(w, workflow, wn.node.id, <<wn.node>>, <<>>, managedResources,
                    wn.uc, fuel)

BuildFetched(w, wf, stepLabel, instanceId, managedResources, uc, fuel) ==
  IF wf.st # "ok" THEN NoBuild("error", uc)
  ELSE IF ~wf.found THEN NoBuild("ok", uc)
  ELSE BuildFound(w, wf.val, instanceId, managedResources,
                  CreateWorkflowNode(wf.val, stepLabel, uc), fuel)

GetWorkflowGraphWithLeafNodes(w, workflowId, stepLabel, instanceId, managedResources, uc, fuel) ==
  IF fuel = 0 THEN NoBuild("diverged", uc)
  ELSE BuildFetched(w, GetWorkflow(w, workflowId), stepLabel, instanceId,
                    managedResources, uc, fuel)

GetWorkflowGraph(w, workflowId, instanceId, uc) ==
  GetWorkflowGraphWithLeafNodes(w, workflowId, "", instanceId, JUndef, uc, MaxDepth)

\* ---------------------------------------------------------------- inflater

InflatedNodeOf(id, label, type, krm) ==
  [id |-> id, label |-> label, type |-> type, krm |-> krm,
   managedResource |-> FALSE, readonly |-> FALSE]

\* knode.metadata?.label ? knode.metadata.label : knode.krm.metadata?.name
LabelOrName(knode) == IF knode.label # "" THEN knode.label ELSE knode.krm.name

RECURSIVE PutAll(_, _)
PutAll(seq, items) ==
  IF items = <<>> THEN seq ELSE PutAll(Put(seq, Head(items)), Tail(items))

\* c = [nodes, edges, kedges, leaves, uc]: the inflated graph under
\* construction, the edges of the internal graph (which the conversion
\* rewrites in place), the leaf ids recorded per sub-workflow node, and the
\* uuid counter.
RECURSIVE AddResourceNodes(_, _, _)
AddResourceNodes(c, parentNodeId, managedResources) ==
  IF managedResources = <<>> THEN c
  ELSE LET managedResource == Head(managedResources)
           i == IdOrFresh(managedResource.resource.uid, c.uc)
           resourceNode ==
             [InflatedNodeOf(i.id, managedResource.resource.name,
                             managedResource.resource.kind, managedResource.resource)
                EXCEPT !.managedResource = TRUE,
                       !.readonly = managedResource.readonly]
       IN AddResourceNodes(
            [c EXCEPT !.nodes = Put(@, resourceNode),
                      !.edges = Put(@, CreateEdge(parentNodeId, i.id, "StepToResource")),
                      !.uc = i.uc],
            parentNodeId, Tail(managedResources))

\* const parentEdge = edges.find(e => e.source === id); parentEdge.source = newId
RewriteFirstSource(kedges, id, newId) ==
  IF \E i \in 1..Len(kedges) : kedges[i].source = id
    THEN LET first == CHOOSE i \in 1..Len(kedges) :
                        /\ kedges[i].source = id
                        /\ \A j \in 1..(i - 1) : kedges[j].source # id
         IN [kedges EXCEPT ![first].source = newId]
    ELSE kedges

ParentNodeIdPlain(id) == id

ParentNodeId(id) == "parent-" \o id

ConvertParentKeepEdges(c, knode) ==
  [c EXCEPT !.nodes = Put(@, InflatedNodeOf(ParentNodeId(knode.id), LabelOrName(knode),
                                            knode.krm.kind, knode.krm))]

ConvertParent(c, knode) ==
  [c EXCEPT !.nodes = Put(@, InflatedNodeOf(ParentNodeId(knode.id), LabelOrName(knode),
                                            knode.krm.kind, knode.krm)),
            !.kedges = RewriteFirstSource(@, knode.id, ParentNodeId(knode.id))]

\* if (includeResources) addResourceNodes(graph, node.id, managedResources)
WithResourceNodes(c, includeResources, parentNodeId, managedResources) ==
  IF includeResources THEN AddResourceNodes(c, parentNodeId, managedResources)
  ELSE c

ConvertResourceFunction(c, knode, includeResources) ==
  WithResourceNodes(
    [c EXCEPT !.nodes = Put(@, InflatedNodeOf(knode.id, LabelOrName(knode),
                                              knode.krm.kind, knode.krm))],
    includeResources, knode.id, knode.managedResources)

ConvertOther(c, knode) ==
  [c EXCEPT !.nodes = Put(@, InflatedNodeOf(knode.id, LabelOrName(knode),
                                            knode.krm.kind, knode.krm))]

ConvertSubWorkflow(c, knode, includeResources) ==
  WithResourceNodes(
    [c EXCEPT !.nodes = Put(@, InflatedNodeOf(knode.id,
                                 LabelOrName(knode.workflowGraph.nodes[1]),
                                 "Sub-Workflow", knode.workflowGraph.nodes[1].krm))],
    includeResources, knode.id, knode.workflowGraph.managedResources)

ConvertRefSwitch(c, knode, includeResources) ==
  WithResourceNodes(
    [c EXCEPT !.nodes = Put(@, InflatedNodeOf(knode.id,
                                 IF knode.label # "" THEN knode.label ELSE "RefSwitch",
                                 "RefSwitch", NoKrm))],
    includeResources, knode.id, knode.managedResources)

\* One iteration of koreoGraph.nodes.forEach in convertGraph.
ConvertNode(c, knode, includeResources) ==
  IF knode.type = "SubWorkflow" THEN ConvertSubWorkflow(c, knode, includeResources)
  ELSE IF knode.type = "RefSwitch" THEN ConvertRefSwitch(c, knode, includeResources)
  ELSE IF knode.type = "ResourceFunction"
    THEN ConvertResourceFunction(c, knode, includeResources)
  ELSE IF knode.type = "Parent" THEN ConvertParent(c, knode)
  ELSE ConvertOther(c, knode)

RECURSIVE ConvertNodes(_, _, _)
ConvertNodes(c, knodes, includeResources) ==
  IF knodes = <<>> THEN c
  ELSE ConvertNodes(ConvertNode(c, Head(knodes), includeResources),
                    Tail(knodes), includeResources)

NewConversion(koreoGraph, uc) ==
  [nodes |-> <<>>, edges |-> <<>>, kedges |-> koreoGraph.edges,
   leaves |-> <<>>, uc |-> uc]

\* The closing koreoGraph.edges.forEach of convertGraph.
WithGraphEdges(c) ==
  [nodes |-> c.nodes, edges |-> PutAll(c.edges, c.kedges), uc |-> c.uc]

ConvertGraph(koreoGraph, includeResources, uc) ==
  WithGraphEdges(ConvertNodes(NewConversion(koreoGraph, uc), koreoGraph.nodes,
                              includeResources))

\* koreoGraph.edges.forEach: edges sourced at the switch move to switch-out,
\* edges targeting it move to switch-in. The edge keeps its id.
RedirectSwitchEdgesSourceOnly(kedges, id, switchInNodeId, switchOutNodeId) ==
  [i \in 1..Len(kedges) |->
     [kedges[i] EXCEPT
        !.source = IF @ = id THEN switchOutNodeId ELSE @]]

RedirectSwitchEdges(kedges, id, switchInNodeId, switchOutNodeId) ==
  [i \in 1..Len(kedges) |->
     [kedges[i] EXCEPT
        !.source = IF @ = id THEN switchOutNodeId ELSE @,
        !.target = IF @ = id THEN switchInNodeId ELSE @]]

\* functionCaseNodes.forEach: switch-in -> case and case -> switch-out.
RECURSIVE WireFunctionCases(_, _, _, _)
WireFunctionCases(edges, functionCaseNodes, switchInNodeId, switchOutNodeId) ==
  IF functionCaseNodes = <<>> THEN edges
  ELSE WireFunctionCases(
         Put(Put(edges, CreateEdge(switchInNodeId, Head(functionCaseNodes), "StepToStep")),
             CreateEdge(Head(functionCaseNodes), switchOutNodeId, "StepToStep")),
         Tail(functionCaseNodes), switchInNodeId, switchOutNodeId)

LeafEdgesFirstOnly(edges, leafNodes, target) ==
  IF leafNodes = <<>> THEN edges
  ELSE Put(edges, CreateEdge(Head(leafNodes), target, "StepToStep"))

\* leafNodes.forEach: one edge from each leaf to the target.
RECURSIVE LeafEdges(_, _, _)
LeafEdges(edges, leafNodes, target) ==
  IF leafNodes = <<>> THEN edges
  ELSE LeafEdges(Put(edges, CreateEdge(Head(leafNodes), target, "StepToStep")),
                 Tail(leafNodes), target)

\* workflowCaseNodes.forEach: switch-in -> the case's Workflow node, and each
\* of its leaves -> switch-out.
RECURSIVE WireWorkflowCases(_, _, _, _)
WireWorkflowCases(edges, workflowCaseNodes, switchInNodeId, switchOutNodeId) ==
  IF workflowCaseNodes = <<>> THEN edges
  ELSE WireWorkflowCases(
         LeafEdges(Put(edges, CreateEdge(switchInNodeId,
                                         Head(workflowCaseNodes).workflowNode,
                                         "StepToStep")),
                   Head(workflowCaseNodes).leafNodes, switchOutNodeId),
         Tail(workflowCaseNodes), switchInNodeId, switchOutNodeId)

RECURSIVE ConvertGraphExpanded(_, _, _)
RECURSIVE ExpandCases(_, _, _)
RECURSIVE ExpandNodes(_, _, _)

\* A sub-workflow case: the nodes and edges of its expanded graph join the
\* graph; its Workflow node and its leaves are kept for the wiring.
WorkflowCaseExpanded(x, caseNode, subGraph) ==
  [x EXCEPT !.c.nodes = PutAll(@, subGraph.nodes),
            !.c.edges = PutAll(@, subGraph.edges),
            !.c.uc = subGraph.uc,
            !.workflowCaseNodes =
               Append(@, [workflowNode |-> caseNode.workflowGraph.nodes[1].id,
                          leafNodes |-> caseNode.workflowLeafNodeIds])]

FunctionCaseExpanded(x, caseStr, caseNode) ==
  [x EXCEPT !.c.nodes = Put(@, InflatedNodeOf(caseNode.id, "case: " \o caseStr,
                                              caseNode.krm.kind, caseNode.krm)),
            !.functionCaseNodes = Append(@, caseNode.id)]

\* caseNode.workflowGraph.nodes[0].metadata.label = `case: ${caseStr}`
CaseLabelled(workflowGraph, caseStr) ==
  [workflowGraph EXCEPT !.nodes[1].label = "case: " \o caseStr]

\* One iteration of Object.entries(knode.caseNodes).forEach.
\* x = [c, functionCaseNodes, workflowCaseNodes].
ExpandCase(x, caseStr, caseNode) ==
  IF caseNode.type = "SubWorkflow"
    THEN WorkflowCaseExpanded(x, caseNode,
           ConvertGraphExpanded(CaseLabelled(caseNode.workflowGraph, caseStr),
                                FALSE, x.c.uc))
    ELSE FunctionCaseExpanded(x, caseStr, caseNode)

ExpandCases(x, caseNodes, k) ==
  IF k > Len(caseNodes) THEN x
  ELSE ExpandCases(ExpandCase(x, caseNodes[k].id, caseNodes[k].node),
                   caseNodes, k + 1)

\* Object.values(subGraph.edges).forEach: the edges sourced at the renamed
\* Workflow node follow it.
SubGraphEdges(edges, prevWorkflowNodeId, workflowNodeId) ==
  [i \in 1..Len(edges) |->
     [edges[i] EXCEPT !.source = IF @ = prevWorkflowNodeId THEN workflowNodeId ELSE @]]

SubWorkflowExpanded(c, knode, prevWorkflowNodeId, subGraph) ==
  [c EXCEPT !.leaves = Put(@, [id |-> knode.id,
                               leafNodes |-> knode.workflowLeafNodeIds]),
            !.nodes = PutAll(@, subGraph.nodes),
            !.edges = PutAll(@, SubGraphEdges(subGraph.edges, prevWorkflowNodeId,
                                              knode.id)),
            !.uc = subGraph.uc]

\* workflowNode.id = knode.id
Renamed(workflowGraph, id) == [workflowGraph EXCEPT !.nodes[1].id = id]

ExpandSubWorkflow(c, knode) ==
  SubWorkflowExpanded(c, knode, knode.workflowGraph.nodes[1].id,
    ConvertGraphExpanded(Renamed(knode.workflowGraph, knode.id), TRUE, c.uc))

SwitchInNode(knode) ==
  InflatedNodeOf("switchIn-" \o knode.id,
                 IF knode.label # "" THEN knode.label ELSE "RefSwitch",
                 "RefSwitch", NoKrm)

SwitchOutNode(knode) ==
  InflatedNodeOf("switchOut-" \o knode.id,
                 IF knode.label # "" THEN knode.label ELSE "RefSwitch Result",
                 "RefSwitch Result", NoKrm)

\* The edge redirection and the wiring of the cases, c being the graph with
\* the switch-out node and its resources.
RefSwitchWired(knode, x, c) ==
  [c EXCEPT
     !.kedges = RedirectSwitchEdges(@, knode.id, "switchIn-" \o knode.id,
                                    "switchOut-" \o knode.id),
     !.edges = WireWorkflowCases(
                 WireFunctionCases(@, x.functionCaseNodes, "switchIn-" \o knode.id,
                                   "switchOut-" \o knode.id),
                 x.workflowCaseNodes, "switchIn-" \o knode.id,
                 "switchOut-" \o knode.id)]

RefSwitchCasesExpandedAtSwitchIn(knode, includeResources, x) ==
  RefSwitchWired(knode, x,
    WithResourceNodes([x.c EXCEPT !.nodes = Put(@, SwitchOutNode(knode))],
                      includeResources, "switchIn-" \o knode.id,
                      knode.managedResources))

RefSwitchCasesExpanded(knode, includeResources, x) ==
  RefSwitchWired(knode, x,
    WithResourceNodes([x.c EXCEPT !.nodes = Put(@, SwitchOutNode(knode))],
                      includeResources, "switchOut-" \o knode.id,
                      knode.managedResources))

ExpandRefSwitch(c, knode, includeResources) ==
  RefSwitchCasesExpanded(knode, includeResources,
    ExpandCases([c |-> [c EXCEPT !.nodes = Put(@, SwitchInNode(knode))],
                 functionCaseNodes |-> <<>>, workflowCaseNodes |-> <<>>],
                knode.caseNodes, 1))

\* One iteration of koreoGraph.nodes.forEach in convertGraphExpanded.
ExpandNode(c, knode, includeResources) ==
  IF knode.type = "SubWorkflow" THEN ExpandSubWorkflow(c, knode)
  ELSE IF knode.type = "RefSwitch" THEN ExpandRefSwitch(c, knode, includeResources)
  ELSE IF knode.type = "ResourceFunction"
    THEN ConvertResourceFunction(c, knode, includeResources)
  ELSE IF knode.type = "Parent" THEN ConvertParent(c, knode)
  ELSE ConvertOther(c, knode)

ExpandNodes(c, knodes, includeResources) ==
  IF knodes = <<>> THEN c
  ELSE ExpandNodes(ExpandNode(c, Head(knodes), includeResources),
                   Tail(knodes), includeResources)

FanOutEdgesKeepAll(edges, kedges, leaves) == PutAll(edges, kedges)

\* The closing koreoGraph.edges.forEach: an edge sourced at a sub-workflow
\* node is replaced by one edge from each of its leaves.
RECURSIVE FanOutEdges(_, _, _)
FanOutEdges(edges, kedges, leaves) ==
  IF kedges = <<>> THEN edges
  ELSE LET kedge == Head(kedges)
       IN FanOutEdges(
            IF Has(leaves, kedge.source)
              THEN LeafEdges(edges, Get(leaves, kedge.source).leafNodes, kedge.target)
              ELSE Put(edges, kedge),
            Tail(kedges), leaves)

WithFanOutEdges(c) ==
  [nodes |-> c.nodes, edges |-> FanOutEdges(c.edges, c.kedges, c.leaves),
   uc |-> c.uc]

ConvertGraphExpanded(koreoGraph, includeResources, uc) ==
  WithFanOutEdges(ExpandNodes(NewConversion(koreoGraph, uc), koreoGraph.nodes,
                              includeResources))

\* The nodes of the internal graph are objects the inflater writes to while
\* it expands them: what they hold when convertGraphExpanded has returned.
RECURSIVE NodesAfterExpansion(_)

\* workflowNode.id = knode.id, then the expansion of the graph of the node.
SubWorkflowNodeAfterExpansionRelabelled(knode) ==
  [knode EXCEPT !.workflowGraph.nodes =
     NodesAfterExpansion([Renamed(knode.workflowGraph, knode.id)
                            EXCEPT !.nodes[1].label = "sub"].nodes)]

SubWorkflowNodeAfterExpansion(knode) ==
  [knode EXCEPT !.workflowGraph.nodes =
     NodesAfterExpansion(Renamed(knode.workflowGraph, knode.id).nodes)]

\* A sub-workflow case: its Workflow node gets the label of the case, then
\* its graph is expanded.
CaseNodeAfterExpansion(caseNode) ==
  IF caseNode.node.type = "SubWorkflow"
    THEN [caseNode EXCEPT !.node.workflowGraph.nodes =
            NodesAfterExpansion(CaseLabelled(caseNode.node.workflowGraph,
                                             caseNode.id).nodes)]
    ELSE caseNode

KNodeAfterExpansion(knode) ==
  IF knode.type = "SubWorkflow" THEN SubWorkflowNodeAfterExpansion(knode)
  ELSE IF knode.type = "RefSwitch"
    THEN [knode EXCEPT !.caseNodes =
            [i \in 1..Len(knode.caseNodes) |-> CaseNodeAfterExpansion(knode.caseNodes[i])]]
  ELSE knode

NodesAfterExpansion(nodes) ==
  [i \in 1..Len(nodes) |-> KNodeAfterExpansion(nodes[i])]

InflateGraph(koreoGraph, includeResources, expanded, uc) ==
  IF expanded THEN ConvertGraphExpanded(koreoGraph, includeResources, uc)
  ELSE ConvertGraph(koreoGraph, includeResources, uc)

\* ----------------------------------------------------------------- cluster

Resolved(kind, name, uid) ==
  [outcome |-> "resolved", kind |-> kind, name |-> name, uid |-> uid]

NoRef == [present |-> FALSE, kind |-> "", name |-> ""]
Ref(kind, name) == [present |-> TRUE, kind |-> kind, name |-> name]
NoRefSwitch == [present |-> FALSE, switchOn |-> <<>>, cases |-> <<>>]
NoForEach == [present |-> FALSE, itemIn |-> VUndef]
ForEach(itemIn) == [present |-> TRUE, itemIn |-> itemIn]
Case(case, kind, name) == [case |-> case, kind |-> kind, name |-> name]

Step(label, ref, inputs) ==
  [label |-> label, ref |-> ref, refSwitch |-> NoRefSwitch,
   forEach |-> NoForEach, inputs |-> inputs]

SwitchStep(label, switchOn, cases, inputs) ==
  [label |-> label, ref |-> NoRef,
   refSwitch |-> [present |-> TRUE, switchOn |-> switchOn, cases |-> cases],
   forEach |-> NoForEach, inputs |-> inputs]

\* spec.configStep: absent, or a step whose label may be missing.
NoConfigStep == [present |-> FALSE, label |-> "", ref |-> NoRef, inputs |-> VUndef]
ConfigStep(label, ref) == [present |-> TRUE, label |-> label, ref |-> ref, inputs |-> VUndef]

Workflow(name, uid, steps) ==
  [outcome |-> "resolved", kind |-> "Workflow", name |-> name, uid |-> uid,
   crdRef |-> TRUE, namespaced |-> TRUE, configStep |-> NoConfigStep,
   steps |-> steps]

Instance(name, uid, annotation) ==
  [outcome |-> "resolved", kind |-> "Parent", name |-> name, uid |-> uid,
   annotation |-> annotation]

NoAnnotation == [kind |-> "nokey", value |-> JUndef]

Cluster(root, workflows, functions, instances, resources) ==
  [root |-> root, workflows |-> workflows, functions |-> functions,
   instances |-> instances, resources |-> resources]

NoObjects == [x \in {} |-> NoObj]

\* Expression texts.
Expr(tail) == <<"=">> \o tail
StepsDot(label) == STEPS \o label

\* "=steps.a.v + steps.b.v"
ExprAandB ==
  Expr(StepsDot(<<"a">>) \o <<".", "v", " ", "+", " ">> \o StepsDot(<<"b">>) \o <<".", "v">>)

\* Inputs a step may declare.
InputChoices ==
  { VUndef,
    \* { x: "steps.a" }: no expression marker
    VObj(<<VStr(StepsDot(<<"a">>))>>),
    \* { x: "=steps.a.v + steps.b.v" }
    VObj(<<VStr(ExprAandB)>>),
    \* { n: 1, l: [ { y: " =steps.ab" } ] }
    VObj(<<VNum, VArr(<<VObj(<<VStr(<<" ">> \o Expr(StepsDot(<<"a", "b">>)))>>)>>)>>),
    \* { x: "=steps.zz.v" }: no such step
    VObj(<<VStr(Expr(StepsDot(<<"z", "z">>) \o <<".", "v">>))>>),
    \* { x: "=1 + 2" }
    VObj(<<VStr(Expr(<<"1", " ", "+", " ", "2">>))>>) }

SwitchOnChoices ==
  { Expr(StepsDot(<<"b">>) \o <<".", "v">>), StepsDot(<<"a">>), Expr(<<"x">>) }

ForEachChoices ==
  { NoForEach, ForEach(VStr(Expr(StepsDot(<<"a">>) \o <<".", "v">>))) }

Functions3 ==
  [n \in {"f1", "f2", "f3"} |->
     Resolved(IF n = "f3" THEN "ResourceFunction" ELSE "ValueFunction", n, "uid-" \o n)]

\* One workflow of three steps a, b and ab; b may use the function of a, and
\* ab is a RefSwitch.
DependencyClusters ==
  { Cluster("w0",
      [n \in {"w0"} |->
         Workflow("w0", "uid-w0",
           << Step("a", Ref("ValueFunction", "f1"), ia),
              [Step("b", Ref("ValueFunction", fb), ib) EXCEPT !.forEach = fe],
              SwitchStep("ab", so, <<Case("x", "ResourceFunction", "f3")>>, VUndef) >>)],
      Functions3, NoObjects, NoObjects) :
      ia \in InputChoices, ib \in InputChoices, so \in SwitchOnChoices,
      fe \in ForEachChoices, fb \in {"f1", "f2"} }

Fn(kind, name) == Resolved(kind, name, "uid-" \o name)

Functions5 ==
  [n \in {"f1", "f2", "f3", "f4", "f5"} |->
     Fn(IF n \in {"f3", "f4"} THEN "ResourceFunction" ELSE "ValueFunction", n)]

RefA == VObj(<<VStr(Expr(StepsDot(<<"a">>) \o <<".", "v">>))>>)
RefS == VObj(<<VStr(Expr(StepsDot(<<"s">>) \o <<".", "v">>))>>)

\* The fetches of the root workflow, of the functions of two of its three
\* steps and of the instance each resolve, reject or throw.
FetchClusters ==
  { Cluster("w0",
      [n \in {"w0"} |->
         [Workflow("w0", "uid-w0",
            << Step("a", Ref("ValueFunction", "f1"), VUndef),
               Step("b", Ref("ResourceFunction", "f3"), RefA),
               Step("c", Ref("ValueFunction", "f2"), RefA) >>)
            EXCEPT !.outcome = o0]],
      [Functions5 EXCEPT !["f1"].outcome = o1, !["f3"].outcome = o3],
      [n \in {"i1"} |-> [Instance("i1", "uid-i1", NoAnnotation) EXCEPT !.outcome = oi]],
      NoObjects) :
      o0 \in ApiOutcomes, o1 \in ApiOutcomes, o3 \in ApiOutcomes, oi \in ApiOutcomes }

\* Objects that report no uid.
UidClusters ==
  { Cluster("w0",
      [n \in {"w0", "w1"} |->
         IF n = "w0"
           THEN Workflow("w0", u0,
                  << Step("a", Ref("ValueFunction", "f1"), VUndef),
                     Step("s", Ref("Workflow", "w1"), RefA) >>)
           ELSE Workflow("w1", u1, <<Step("a", Ref("ValueFunction", "f2"), VUndef)>>)],
      [Functions5 EXCEPT !["f1"].uid = uf],
      NoObjects, NoObjects) :
      u0 \in {"uid-w0", ""}, u1 \in {"uid-w1", ""}, uf \in {"uid-f1", ""} }

\* The steps of the sub-workflow w1.
SubWorkflowSteps ==
  { \* B reads A, C reads nothing: the leaves are B and C
    << Step("a", Ref("ValueFunction", "f1"), VUndef),
       Step("b", Ref("ValueFunction", "f2"), RefA),
       Step("c", Ref("ResourceFunction", "f3"), VUndef) >>,
    \* no step
    << >>,
    \* the leaf is a RefSwitch
    << Step("a", Ref("ValueFunction", "f1"), VUndef),
       SwitchStep("b", Expr(<<"x">>), <<Case("x", "ResourceFunction", "f4")>>, RefA) >>,
    \* the leaf is a nested sub-workflow
    << Step("a", Ref("ValueFunction", "f1"), VUndef),
       Step("b", Ref("Workflow", "w2"), RefA) >>,
    \* a single step
    << Step("a", Ref("ValueFunction", "f1"), VUndef) >> }

\* The step t of the root that reads the sub-workflow step s.
ConsumerSteps ==
  { Step("t", Ref("ValueFunction", "f2"), RefS),
    Step("t", Ref("ValueFunction", "f1"), RefS),
    Step("t", Ref("Workflow", "w2"), RefS),
    SwitchStep("t", Expr(StepsDot(<<"s">>) \o <<".", "v">>),
               <<Case("y", "ResourceFunction", "f3")>>, VUndef) }

SubWorkflowClusters ==
  { Cluster("w0",
      [n \in {"w0", "w1", "w2"} |->
         IF n = "w0"
           THEN Workflow("w0", "uid-w0", <<Step("s", Ref("Workflow", "w1"), VUndef), t>>)
         ELSE IF n = "w1" THEN Workflow("w1", "uid-w1", sub)
         ELSE Workflow("w2", "uid-w2", <<Step("x", Ref("ValueFunction", fx), VUndef)>>)],
      Functions5, NoObjects, NoObjects) :
      sub \in SubWorkflowSteps, t \in ConsumerSteps, fx \in {"f5", "f1"} }

\* The cases of the RefSwitch step sw.
SwitchCases ==
  { << >>,
    << Case("x", "ValueFunction", "f2") >>,
    << Case("x", "ValueFunction", "f2"), Case("y", "ResourceFunction", "f3") >>,
    << Case("x", "Workflow", "w1") >>,
    << Case("x", "ValueFunction", "f2"), Case("y", "ResourceFunction", "f3"),
       Case("z", "Workflow", "w1") >>,
    << Case("x", "Workflow", "w1"), Case("y", "ValueFunction", "f2"),
       Case("z", "Workflow", "w2") >> }

SwitchClusters ==
  { Cluster("w0",
      [n \in {"w0", "w1", "w2"} |->
         IF n = "w0"
           THEN Workflow("w0", "uid-w0",
                  << Step("a", Ref("ValueFunction", "f1"), VUndef),
                     SwitchStep("s", Expr(StepsDot(<<"a">>)), cases, VUndef),
                     Step("t", Ref("ValueFunction", "f5"), RefS) >>)
         ELSE IF n = "w1"
           THEN Workflow("w1", "uid-w1",
                  << Step("a", Ref("ValueFunction", "f4x"), VUndef),
                     Step("b", Ref("ValueFunction", "f5x"), RefA),
                     Step("c", Ref("ValueFunction", "f6x"), RefA) >>)
         ELSE Workflow("w2", "uid-w2", <<Step("x", Ref("ValueFunction", "f7x"), VUndef)>>)],
      [n \in {"f1", "f2", "f3", "f5", "f4x", "f5x", "f6x", "f7x"} |->
         Fn(IF n = "f3" THEN "ResourceFunction" ELSE "ValueFunction", n)],
      NoObjects, NoObjects) :
      cases \in SwitchCases }

Descriptor(name, resourceFunction) ==
  JObj([k \in ResourceKeys |->
          IF k = "name" THEN JStr(name)
          ELSE IF k = "resourceFunction" THEN JStr(resourceFunction)
          ELSE IF k = "readonly" THEN JBool(FALSE)
          ELSE IF k = "kind" THEN JStr("ConfigMap")
          ELSE JStr("v1")])

ManagedResources(workflow, resources) ==
  JObj([k \in {"workflow", "resources"} |->
          IF k = "workflow" THEN JStr(workflow) ELSE JObj(resources)])

\* An instance i1 of w0 whose step r manages one resource, r being a
\* ResourceFunction step, a RefSwitch over one, or a sub-workflow holding
\* one; the resource reports its own uid, the uid of the instance, or none.
InstanceClusters ==
  { Cluster("w0",
      [n \in {"w0", "w1"} |->
         IF n = "w0"
           THEN Workflow("w0", "uid-w0",
                  << r, Step("t", Ref("ValueFunction", "f1"),
                              VObj(<<VStr(Expr(StepsDot(<<"r">>)))>>)) >>)
           ELSE Workflow("w1", "uid-w1", <<Step("q", Ref("ResourceFunction", "f3"), VUndef)>>)],
      Functions5,
      [n \in {"i1"} |->
         Instance("i1", "uid-i1",
           [kind |-> "json",
            value |-> ManagedResources("w0",
                        [l \in {"r"} |->
                           IF r.ref.kind = "Workflow"
                             THEN ManagedResources("w1",
                                    [q \in {"q"} |-> Descriptor("res1", "f3")])
                             ELSE Descriptor("res1", "f3")])])],
      [n \in {"res1"} |-> Resolved("ConfigMap", "res1", ru)]) :
      r \in { Step("r", Ref("ResourceFunction", "f3"), VUndef),
              SwitchStep("r", Expr(<<"x">>), <<Case("x", "ResourceFunction", "f3")>>, VUndef),
              Step("r", Ref("Workflow", "w1"), VUndef) },
      ru \in {"uid-res1", "uid-i1", ""} }

\* What the annotation of an instance may hold for a step: a descriptor of
\* f3, a descriptor of f4, a nested map of w1, a nested map of w2, null, an
\* empty list, and a forEach list that mixes them.
EntryChoices ==
  { Descriptor("res1", "f3"),
    Descriptor("res1", "f4"),
    ManagedResources("w1", [q \in {"q"} |-> Descriptor("res2", "f3")]),
    ManagedResources("w2", [q \in {"q"} |-> Descriptor("res2", "f3")]),
    JNull,
    JArr(<< >>),
    JArr(<< Descriptor("res1", "f3"),
            ManagedResources("w1", [q \in {"q"} |-> Descriptor("res2", "f3")]),
            Descriptor("res3", "f4"),
            ManagedResources("w2", [q \in {"q"} |-> Descriptor("res1", "f3")]),
            Descriptor("res2", "f3"),
            ManagedResources("w1", [q \in {"q"} |-> Descriptor("res3", "f3")]) >>) }

\* An instance i1 of w0 whose forEach steps r, a ResourceFunction step, and s,
\* a sub-workflow step, each have an entry in the annotation.
SliceClusters ==
  { Cluster("w0",
      [n \in {"w0", "w1"} |->
         IF n = "w0"
           THEN Workflow("w0", "uid-w0",
                  << [Step("r", Ref("ResourceFunction", "f3"), VUndef)
                        EXCEPT !.forEach = ForEach(VStr(Expr(<<"x">>)))],
                     [Step("s", Ref("Workflow", "w1"), VUndef)
                        EXCEPT !.forEach = ForEach(VStr(Expr(<<"x">>)))] >>)
           ELSE Workflow("w1", "uid-w1", <<Step("q", Ref("ResourceFunction", "f3"), VUndef)>>)],
      Functions5,
      [n \in {"i1"} |->
         Instance("i1", "uid-i1",
           [kind |-> "json",
            value |-> ManagedResources("w0",
                        [l \in {"r", "s"} |-> IF l = "r" THEN re ELSE se])])],
      [n \in {"res1", "res2", "res3"} |-> Resolved("ConfigMap", n, "uid-" \o n)]) :
      re \in EntryChoices, se \in EntryChoices }

\* An instance i1 of w0 whose RefSwitch step r has a ResourceFunction case and
\* a sub-workflow case, each with a resource in the forEach list of r, and
\* whose step u is a ResourceFunction step with a resource of its own; u may
\* use the function of the case, and may read the object the case manages.
SharedResourceClusters ==
  { Cluster("w0",
      [n \in {"w0", "w1"} |->
         IF n = "w0"
           THEN Workflow("w0", "uid-w0",
                  << SwitchStep("r", Expr(<<"x">>),
                                << Case("x", "ResourceFunction", "f3"),
                                   Case("y", "Workflow", "w1") >>, VUndef),
                     Step("u", Ref("ResourceFunction", fu), VUndef) >>)
           ELSE Workflow("w1", "uid-w1", <<Step("q", Ref("ResourceFunction", "f4"), VUndef)>>)],
      Functions5,
      [n \in {"i1"} |->
         Instance("i1", "uid-i1",
           [kind |-> "json",
            value |-> ManagedResources("w0",
                        [l \in {"r", "u"} |->
                           IF l = "r"
                             THEN JArr(<< Descriptor("res1", "f3"),
                                          ManagedResources("w1",
                                            [q \in {"q"} |-> Descriptor("res2", "f4")]) >>)
                             ELSE Descriptor(ru, fu)])])],
      [n \in {"res1", "res2", "res3"} |-> Resolved("ConfigMap", n, "uid-" \o n)]) :
      fu \in {"f3", "f4"}, ru \in {"res1", "res2", "res3"} }

\* An instance i1 of w0 whose metadata has no annotations map, no
\* managed-resources key, a text that is not JSON, or the text of a map.
AnnotationClusters ==
  { Cluster("w0",
      [n \in {"w0"} |->
         Workflow("w0", "uid-w0", <<Step("a", Ref("ResourceFunction", "f3"), VUndef)>>)],
      Functions5,
      [n \in {"i1"} |-> Instance("i1", "uid-i1", an)],
      [n \in {"res1"} |-> Resolved("ConfigMap", "res1", "uid-res1")]) :
      an \in { [kind |-> "nomap", value |-> JUndef],
               NoAnnotation,
               [kind |-> "malformed", value |-> JUndef],
               [kind |-> "json",
                value |-> ManagedResources("w0",
                            [l \in {"a"} |-> Descriptor("res1", "f3")])] } }

\* A keyed mapping that carries only some of the keys of a resource.
PartialDescriptor(name) ==
  JObj([k \in {"apiVersion", "kind", "name"} |->
          IF k = "name" THEN JStr(name)
          ELSE IF k = "kind" THEN JStr("ConfigMap")
          ELSE JStr("v1")])

\* A keyed mapping that carries the keys of a resource and those of a nested
\* map of resources.
DescriptorWithWorkflow(name, resourceFunction) ==
  JObj([k \in ResourceKeys \cup {"workflow", "resources"} |->
          IF k \in {"name", "workflow"} THEN JStr(name)
          ELSE IF k = "resourceFunction" THEN JStr(resourceFunction)
          ELSE IF k = "readonly" THEN JBool(FALSE)
          ELSE IF k = "kind" THEN JStr("ConfigMap")
          ELSE IF k = "resources" THEN JObj([x \in {} |-> JNull])
          ELSE JStr("v1")])

\* An instance i1 of w0 whose annotation holds, for step a, each kind of
\* ManagedResource: null, a resource, a mapping with some or more than the
\* keys of a resource, a nested map, and lists of these.
ClassificationClusters ==
  { Cluster("w0",
      [n \in {"w0"} |->
         Workflow("w0", "uid-w0", <<Step("a", Ref("ResourceFunction", "f3"), VUndef)>>)],
      Functions5,
      [n \in {"i1"} |->
         Instance("i1", "uid-i1",
                  [kind |-> "json",
                   value |-> ManagedResources("w0", [l \in {"a"} |-> v])])],
      [n \in {"res1"} |-> Resolved("ConfigMap", "res1", "uid-res1")]) :
      v \in { JNull,
              Descriptor("res1", "f3"),
              PartialDescriptor("res1"),
              DescriptorWithWorkflow("res1", "f3"),
              ManagedResources("w0", [l \in {"a"} |-> PartialDescriptor("res1")]),
              JArr(<<>>),
              JArr(<<Descriptor("res1", "f3"), PartialDescriptor("res1")>>) } }

\* Workflows whose sub-workflow references form a cycle: w0 refers to itself,
\* w0 and w1 refer to each other, w0 has itself as a case of a RefSwitch, and
\* w0 refers to w1 which has itself as a case.
CyclicClusters ==
  { Cluster("w0",
      [n \in {"w0", "w1"} |->
         IF n = "w0"
           THEN Workflow("w0", "uid-w0", <<s0>>)
           ELSE Workflow("w1", "uid-w1", <<s1>>)],
      Functions5, NoObjects, NoObjects) :
      s0 \in { Step("s", Ref("Workflow", "w0"), VUndef),
               Step("s", Ref("Workflow", "w1"), VUndef),
               SwitchStep("s", Expr(<<"x">>),
                          << Case("x", "ValueFunction", "f2"),
                             Case("y", "Workflow", "w0") >>, VUndef) },
      s1 \in { Step("s", Ref("Workflow", "w0"), VUndef),
               SwitchStep("s", Expr(<<"x">>), <<Case("x", "Workflow", "w1")>>, VUndef) } }

\* A workflow that declares a config step, labelled cfg or unlabelled, and a
\* step a that reads it under that label or under the default label.
ConfigClusters ==
  { Cluster("w0",
      [n \in {"w0"} |->
         [Workflow("w0", "uid-w0",
            << Step("a", Ref("ValueFunction", "f1"),
                    VObj(<<VStr(Expr(StepsDot(read) \o <<".", "v">>))>>)),
               Step("b", Ref("ValueFunction", "f2"), RefA) >>)
            EXCEPT !.configStep = ConfigStep(label, Ref("ValueFunction", "f5"))]],
      Functions5, NoObjects, NoObjects) :
      label \in {"cfg", ""},
      read \in {<<"c", "f", "g">>, <<"c", "o", "n", "f", "i", "g">>} }

\* The workflow w1 that a step of w0, or a case of its RefSwitch, refers to
\* is not in the cluster: its fetch rejects or throws.
MissingSubWorkflowClusters ==
  { Cluster("w0",
      [n \in {"w0", "w1"} |->
         IF n = "w0"
           THEN Workflow("w0", "uid-w0",
                  <<Step("a", Ref("ValueFunction", "f1"), VUndef), s>>)
           ELSE [Workflow("w1", "uid-w1", <<>>) EXCEPT !.outcome = o1]],
      Functions5, NoObjects, NoObjects) :
      s \in { Step("s", Ref("Workflow", "w1"), RefA),
              SwitchStep("s", Expr(<<"x">>),
                         << Case("x", "ValueFunction", "f2"),
                            Case("y", "Workflow", "w1") >>, RefA) },
      o1 \in {"rejected", "thrown"} }

\* Two RefSwitch steps p and q over the Functions f2 and f3, q declaring its
\* cases in the order of p or in the other order.
SwitchOrderClusters ==
  { Cluster("w0",
      [n \in {"w0"} |->
         Workflow("w0", "uid-w0",
           << SwitchStep("p", Expr(<<"x">>),
                         << Case("x", "ValueFunction", "f2"),
                            Case("y", "ResourceFunction", "f3") >>, VUndef),
              SwitchStep("q", Expr(<<"x">>), cases, VUndef) >>)],
      Functions5, NoObjects, NoObjects) :
      cases \in { << Case("x", "ValueFunction", "f2"), Case("y", "ResourceFunction", "f3") >>,
                  << Case("y", "ResourceFunction", "f3"), Case("x", "ValueFunction", "f2") >>,
                  << Case("x", "ResourceFunction", "f3"), Case("y", "ValueFunction", "f2") >> } }

Clusters ==
  DependencyClusters \cup FetchClusters \cup UidClusters \cup SubWorkflowClusters
    \cup SwitchClusters \cup InstanceClusters \cup SliceClusters
    \cup SharedResourceClusters \cup AnnotationClusters \cup CyclicClusters
    \cup ConfigClusters \cup MissingSubWorkflowClusters \cup SwitchOrderClusters
    \cup ClassificationClusters

\* ----------------------------------------------------------- state machine

NoRequest == [workflowId |-> "", instanceId |-> "", expanded |-> FALSE]

NoInflated == [nodes |-> <<>>, edges |-> <<>>]

\* The deduped graph and the label -> id index before any step task wrote.
NoTasks ==
  [st |-> "ok", nodes |-> <<>>, managedResources |-> <<>>,
   stepNodes |-> EmptyMap, uc |-> 0]

Init ==
  /\ world \in Clusters
  /\ pc = "idle"
  /\ request = NoRequest
  /\ kgraph = NoBuild("ok", 0)
  /\ inflated = NoInflated
  /\ uuidCount = 0
  /\ history = <<>>
  /\ koreoNodes = <<>>
  /\ phase = "idle"
  /\ settled = <<>>
  /\ build = NoTasks
  /\ result = NoBuild("ok", 0)

InstanceIds(w) == {""} \cup DOMAIN w.instances

\* getWorkflowGraph was called for the request req, r being what its promise
\* does: it resolves, it rejects, or it stays pending and the caller never
\* gets an answer.
GetWorkflowGraphSettled(req, r) ==
  /\ request' = req
  /\ kgraph' = r
  /\ koreoNodes' = r.graph.nodes
  /\ uuidCount' = r.uc
  /\ inflated' = NoInflated
  /\ IF r.st = "ok" THEN pc' = "built" /\ UNCHANGED history
     ELSE IF r.st = "diverged" THEN pc' = "pending" /\ UNCHANGED history
     ELSE /\ pc' = "failed"
          /\ history' = Append(history, [request |-> req, st |-> r.st,
                                         graph |-> NoInflated])

RequestOf(instanceId, expanded) ==
  [workflowId |-> world.root, instanceId |-> instanceId, expanded |-> expanded]

\* A caller asks for a graph: getWorkflowGraph runs to its end. A request
\* after the first repeats the first.
GetWorkflowGraphCall ==
  \E instanceId \in InstanceIds(world), expanded \in BOOLEAN :
    /\ pc \in {"idle", "done", "failed"}
    /\ Len(history) < MaxRuns
    /\ history # <<>> => RequestOf(instanceId, expanded) = history[1].request
    /\ GetWorkflowGraphSettled(RequestOf(instanceId, expanded),
         GetWorkflowGraph(world, world.root, instanceId, uuidCount))
    /\ UNCHANGED <<world, taskVars>>

InflateGraphReturned(r) ==
  /\ inflated' = [nodes |-> r.nodes, edges |-> r.edges]
  /\ uuidCount' = r.uc
  /\ history' = Append(history, [request |-> request, st |-> "ok",
                                 graph |-> [nodes |-> r.nodes, edges |-> r.edges]])

\* getInflatedWorkflowGraph / getInflatedWorkflowInstanceGraph go on after the
\* await: inflateGraph(graph, includeResources, expanded).
InflateGraphCall ==
  /\ pc = "built"
  /\ koreoNodes' = IF request.expanded THEN NodesAfterExpansion(kgraph.graph.nodes)
                                       ELSE kgraph.graph.nodes
  /\ InflateGraphReturned(InflateGraph(kgraph.graph, request.instanceId # "",
                                       request.expanded, uuidCount))
  /\ pc' = "done"
  /\ UNCHANGED <<world, request, kgraph, taskVars>>

Next == GetWorkflowGraphCall \/ InflateGraphCall

Spec == Init /\ [][Next]_vars

\* ------------------------------------------------------ the step task group

\* One build of the root workflow, without instance, followed through the
\* tasks that steps.map(addStepNodes) issues: they settle one at a time in
\* any order, each writing the graph and the index when it resumes after its
\* last await.

TaskIds == 1..Len(world.workflows[world.root].steps)

PendingTasks == IF phase = "idle" THEN {} ELSE TaskIds \ {settled[k] : k \in 1..Len(settled)}

\* The workflow was fetched and its node created: every step task is issued.
TasksIssued(wn) ==
  /\ phase' = "tasks"
  /\ settled' = <<>>
  /\ build' = [NoTasks EXCEPT !.nodes = <<wn.node>>, !.uc = wn.uc]
  /\ UNCHANGED result

IssueStepTasks ==
  /\ phase = "idle"
  /\ GetWorkflow(world, world.root).st = "ok"
  /\ GetWorkflow(world, world.root).found
  /\ TasksIssued(CreateWorkflowNode(world.workflows[world.root], "", 0))
  /\ UNCHANGED <<world, requestVars>>

\* The task of step i has settled, b being the graph and the index it left.
\* A task that recurses without end never settles. The first rejection
\* rejects Promise.all and the build with it; the other tasks go on.
StepTaskSettled(i, b) ==
  /\ b.st # "diverged"
  /\ settled' = Append(settled, i)
  /\ build' = [b EXCEPT !.st = "ok"]
  /\ phase' = IF b.st = "error" /\ phase = "tasks" THEN "rejected" ELSE phase
  /\ UNCHANGED result

StepTaskSettles ==
  \E i \in PendingTasks :
    /\ StepTaskSettled(i, AddStepNodes(world, world.workflows[world.root].steps[i],
                                       build, JUndef, MaxDepth - 1))
    /\ UNCHANGED <<world, requestVars>>

PromiseAllResolvedEarly(p, pendingTasks) == p = "tasks"

\* await Promise.all(...) lets the build go on: no task rejected and none is
\* pending.
PromiseAllResolved(p, pendingTasks) == p = "tasks" /\ pendingTasks = {}

\* What follows the await without a further suspension: the edge pass, which
\* reads the index, the leaves and the return.
EdgePassAfterJoin ==
  /\ PromiseAllResolved(phase, PendingTasks)
  /\ result' = StepsJoined(world.workflows[world.root], build.nodes[1].id, <<>>, build)
  /\ phase' = "returned"
  /\ UNCHANGED <<world, requestVars, settled, build>>

NextTasks == IssueStepTasks \/ StepTaskSettles \/ EdgePassAfterJoin

TaskSpec == Init /\ [][NextTasks]_vars

\* ------------------------------------------------------------------ claims

SeqToSet(seq) == {seq[i] : i \in 1..Len(seq)}

NodeIdsOf(seq) == {seq[i].id : i \in 1..Len(seq)}

RootWorkflow == world.workflows[world.root]

RootSteps == SeqToSet(RootWorkflow.steps)

\* The label -> id index and the edges of the graph built for the request.
Index == kgraph.stepNodes

IndexIds == {Index[l] : l \in DOMAIN Index}

HasEdge(edges, source, target, type) ==
  \E i \in 1..Len(edges) :
    edges[i].source = source /\ edges[i].target = target /\ edges[i].type = type

EdgeCount(edges, source, target) ==
  Cardinality({i \in 1..Len(edges) :
                 edges[i].source = source /\ edges[i].target = target})

\* The node of the internal graph with this id is of this type.
IsKNode(id, type) ==
  Has(kgraph.graph.nodes, id) /\ Get(kgraph.graph.nodes, id).type = type

\* The text of a label.
CharsOf(label) ==
  CASE label = "ab" -> <<"a", "b">>
    [] label = "zz" -> <<"z", "z">>
    [] label = "cfg" -> <<"c", "f", "g">>
    [] label = "config" -> <<"c", "o", "n", "f", "i", "g">>
    [] OTHER -> <<label>>

\* The first character of s that is not white space is the expression marker.
IsExpression(s) ==
  \E i \in 1..Len(s) : s[i] = "=" /\ \A j \in 1..(i - 1) : s[j] \in WhiteSpace

\* The expression strings nested at any depth in a value.
RECURSIVE ExpressionStrings(_)
ExpressionStrings(val) ==
  IF val.t = "str" THEN (IF IsExpression(val.s) THEN {val.s} ELSE {})
  ELSE IF val.t \in {"arr", "obj"}
    THEN UNION {ExpressionStrings(val.items[i]) : i \in 1..Len(val.items)}
  ELSE {}

StepExpressions(step) ==
  ExpressionStrings(step.inputs)
    \cup (IF step.forEach.present THEN ExpressionStrings(step.forEach.itemIn) ELSE {})
    \cup (IF step.refSwitch.present
            THEN ExpressionStrings(VStr(step.refSwitch.switchOn)) ELSE {})

\* steps.<label> stands at position i of s, the label not running on.
OccursAt(s, label, i) ==
  /\ i + Len(STEPS) + Len(label) - 1 <= Len(s)
  /\ SubSeq(s, i, i + Len(STEPS) - 1) = STEPS
  /\ SubSeq(s, i + Len(STEPS), i + Len(STEPS) + Len(label) - 1) = label
  /\ i + Len(STEPS) + Len(label) <= Len(s)
       => s[i + Len(STEPS) + Len(label)] \notin LabelChars

\* An expression string of the step names steps.<label>.
References(step, label) ==
  \E s \in StepExpressions(step) :
    \E i \in 1..Len(s) : OccursAt(s, CharsOf(label), i)

\* C1: a request for a workflow whose fetch fails or reports not-found returns
\* a graph with no nodes and no edges, and the caller sees no failure.
C1_FailedFetchYieldsEmptyGraph ==
  (pc # "idle" /\ RootWorkflow.outcome # "resolved") =>
    /\ pc # "failed"
    /\ kgraph.st = "ok"
    /\ kgraph.graph.nodes = <<>> /\ kgraph.graph.edges = <<>>
    /\ inflated.nodes = <<>> /\ inflated.edges = <<>>

\* C2: for every step S that has a node and every label L of the index that an
\* expression string of S.inputs, S.forEach.itemIn or S.refSwitch.switchOn
\* names as steps.L, the built graph holds a StepToStep edge from the node of
\* L to the node of S; a string naming several steps yields an edge from each.
C2_DependencyEdges ==
  pc = "built" =>
    \A S \in RootSteps :
      S.label \in DOMAIN Index =>
        \A L \in DOMAIN Index :
          References(S, L) =>
            HasEdge(kgraph.graph.edges, Index[L], Index[S.label], "StepToStep")

\* One expression string names steps.a and steps.b, whose nodes differ, and
\* the graph holds the edge from each.
C2_Witness ==
  /\ pc = "built"
  /\ {"a", "b"} \subseteq DOMAIN Index
  /\ Index["a"] # Index["b"]
  /\ \E S \in RootSteps :
       /\ S.label \in DOMAIN Index
       /\ ExprAandB \in StepExpressions(S)
       /\ HasEdge(kgraph.graph.edges, Index["a"], Index[S.label], "StepToStep")
       /\ HasEdge(kgraph.graph.edges, Index["b"], Index[S.label], "StepToStep")

StepToStepSources ==
  {e.source : e \in {x \in SeqToSet(kgraph.graph.edges) : x.type = "StepToStep"}}

\* C3: the leaf set the builder returns is the set of the ids of the index
\* minus the ids that are the source of a StepToStep edge of the workflow.
C3_LeafSet ==
  pc = "built" => SeqToSet(kgraph.leafNodes) = IndexIds \ StepToStepSources

\* Three steps with a node each, one of them read by the others: two leaves.
C3_Witness ==
  /\ pc = "built"
  /\ Cardinality(IndexIds) = 3
  /\ Cardinality(SeqToSet(kgraph.leafNodes)) = 2
  /\ Cardinality(StepToStepSources) = 1

\* The edges of the internal graph that leave a SubWorkflow node.
SubWorkflowEdges ==
  {e \in SeqToSet(kgraph.graph.edges) : IsKNode(e.source, "SubWorkflow")}

LeavesOf(id) == SeqToSet(Get(kgraph.graph.nodes, id).workflowLeafNodeIds)

\* The id under which the expanded graph takes the edges that enter a node.
RenderedAs(id) ==
  IF IsKNode(id, "RefSwitch") THEN "switchIn-" \o id ELSE id

StepToStepCount(edges, source, target) ==
  Cardinality({i \in 1..Len(edges) :
                 /\ edges[i].source = source /\ edges[i].target = target
                 /\ edges[i].type = "StepToStep"})

RECURSIVE SeqSum(_)
SeqSum(seq) == IF seq = <<>> THEN 0 ELSE Head(seq) + SeqSum(Tail(seq))

RECURSIVE Flatten(_)
Flatten(seqs) == IF seqs = <<>> THEN <<>> ELSE Head(seqs) \o Flatten(Tail(seqs))

AllDistinct(seq) == Cardinality(SeqToSet(seq)) = Len(seq)

RefSwitchNodes == {n \in SeqToSet(kgraph.graph.nodes) : n.type = "RefSwitch"}

\* Where each case of a switch is entered, and the nodes it is left from.
CaseEntries(n) ==
  [i \in 1..Len(n.caseNodes) |->
     IF n.caseNodes[i].node.type = "SubWorkflow"
       THEN n.caseNodes[i].node.workflowGraph.nodes[1].id
       ELSE n.caseNodes[i].node.id]

CaseExits(n) ==
  Flatten([i \in 1..Len(n.caseNodes) |->
             IF n.caseNodes[i].node.type = "SubWorkflow"
               THEN n.caseNodes[i].node.workflowLeafNodeIds
               ELSE <<n.caseNodes[i].node.id>>])

\* f + |L_1| + ... + |L_w|
ExitCount(n) ==
  SeqSum([i \in 1..Len(n.caseNodes) |->
            IF n.caseNodes[i].node.type = "SubWorkflow"
              THEN Len(n.caseNodes[i].node.workflowLeafNodeIds)
              ELSE 1])

OutDegree(edges, id) == Cardinality({i \in 1..Len(edges) : edges[i].source = id})

InDegree(edges, id) == Cardinality({i \in 1..Len(edges) : edges[i].target = id})

\* C5: in expanded mode a RefSwitch of f Function cases and w sub-workflow
\* cases with leaf sets L_1..L_w, all ids distinct, has f + w edges leaving its
\* switch-in node and f + |L_1| + ... + |L_w| edges entering its switch-out
\* node.
C5_RefSwitchExpansion ==
  (pc = "done" /\ request.expanded) =>
    \A n \in RefSwitchNodes :
      (AllDistinct(CaseEntries(n)) /\ AllDistinct(CaseExits(n))) =>
        /\ OutDegree(inflated.edges, "switchIn-" \o n.id) = Len(n.caseNodes)
        /\ InDegree(inflated.edges, "switchOut-" \o n.id) = ExitCount(n)

\* Two Function cases and one sub-workflow case of two leaves: three edges
\* leave switch-in and four enter switch-out.
C5_Witness ==
  /\ pc = "done" /\ request.expanded
  /\ \E n \in RefSwitchNodes :
       /\ AllDistinct(CaseEntries(n)) /\ AllDistinct(CaseExits(n))
       /\ Len(n.caseNodes) = 3
       /\ ExitCount(n) = 4
       /\ OutDegree(inflated.edges, "switchIn-" \o n.id) = 3
       /\ InDegree(inflated.edges, "switchOut-" \o n.id) = 4

\* C6: two runs of the same request over the same backing data yield inflated
\* graphs with equal node id sets and equal edge id sets.
C6_RepeatedRunsSameIds ==
  (Len(history) >= 2 /\ history[1].st = "ok" /\ history[2].st = "ok") =>
    /\ NodeIdsOf(history[1].graph.nodes) = NodeIdsOf(history[2].graph.nodes)
    /\ NodeIdsOf(history[1].graph.edges) = NodeIdsOf(history[2].graph.edges)

\* What a step refers to: its ref, or the cases of its refSwitch.
RefTargets(step) ==
  IF step.refSwitch.present
    THEN [i \in 1..Len(step.refSwitch.cases) |->
            [kind |-> step.refSwitch.cases[i].kind,
             name |-> step.refSwitch.cases[i].name]]
  ELSE IF step.ref.present
    THEN <<[kind |-> step.ref.kind, name |-> step.ref.name]>>
  ELSE <<>>

StepTargets(steps) == Flatten([i \in 1..Len(steps) |-> RefTargets(steps[i])])

IsFunction(t) ==
  /\ t.kind # "Workflow"
  /\ t.name \in DOMAIN world.functions
  /\ world.functions[t.name].kind = t.kind
  /\ world.functions[t.name].outcome = "resolved"
  /\ world.functions[t.name].uid # ""

IsWorkflow(t) ==
  /\ t.kind = "Workflow"
  /\ t.name \in DOMAIN world.workflows
  /\ world.workflows[t.name].outcome = "resolved"

\* The uids of the Function objects the steps refer to, one entry per step
\* path, sub-workflows followed.
RECURSIVE ReferencedUids(_, _)
ReferencedUids(targets, fuel) ==
  IF targets = <<>> THEN <<>>
  ELSE (IF IsFunction(Head(targets))
          THEN <<world.functions[Head(targets).name].uid>>
        ELSE IF IsWorkflow(Head(targets)) /\ fuel > 0
          THEN ReferencedUids(StepTargets(world.workflows[Head(targets).name].steps),
                              fuel - 1)
        ELSE <<>>)
       \o ReferencedUids(Tail(targets), fuel)

AllReferencedUids == ReferencedUids(StepTargets(RootWorkflow.steps), MaxDepth)

\* The uids two or more step paths lead to.
SharedUids ==
  {u \in SeqToSet(AllReferencedUids) :
     Cardinality({i \in 1..Len(AllReferencedUids) : AllReferencedUids[i] = u}) >= 2}

\* The uids of the Functions the ref steps of the requested workflow name.
DirectUids ==
  {world.functions[S.ref.name].uid :
     S \in {x \in RootSteps : x.ref.present /\ IsFunction(x.ref)}}

NodeCount(nodes, id) == Cardinality({i \in 1..Len(nodes) : nodes[i].id = id})

\* C7, as stated: when two steps, of one workflow or on different sub-workflow
\* paths, refer to Functions of one uid, the inflated graph holds exactly one
\* node of that id.
C7_SharedUidExactlyOneNode ==
  pc = "done" =>
    \A u \in SharedUids : NodeCount(inflated.nodes, u) = 1

\* C7, amended: the inflated graph holds at most one node of that id, and
\* exactly one in expanded mode or when one of the steps is a ref step of the
\* requested workflow.
C7_SharedUidOneNode ==
  pc = "done" =>
    \A u \in SharedUids :
      /\ NodeCount(inflated.nodes, u) <= 1
      /\ (request.expanded \/ u \in DirectUids) => NodeCount(inflated.nodes, u) = 1

\* A uid reached by a step of the requested workflow and by a step of a
\* sub-workflow, rendered once in the expanded graph.
C7_Witness ==
  /\ pc = "done" /\ request.expanded
  /\ \E u \in SharedUids \cap DirectUids :
       /\ NodeCount(inflated.nodes, u) = 1
       /\ \E n \in SeqToSet(kgraph.graph.nodes) :
            /\ n.type = "SubWorkflow"
            /\ Has(n.workflowGraph.nodes, u)

\* The Workflow node of the graph built for the request.
WorkflowNodeIds == {n.id : n \in {x \in SeqToSet(kgraph.graph.nodes) : x.type = "Workflow"}}

IncomingOfType(id, type) ==
  {e \in SeqToSet(kgraph.graph.edges) : e.target = id /\ e.type = type}

\* No other step of the workflow resolves to the node of S.
Unshared(S) ==
  \A S2 \in RootSteps :
    (S2.label \in DOMAIN Index /\ Index[S2.label] = Index[S.label])
      => S2.label = S.label

\* C8, as stated: a step that has a node and no expression-prefixed string in
\* its inputs, forEach.itemIn and refSwitch.switchOn has no incoming
\* StepToStep edge and exactly one incoming WorkflowToStep edge, from the
\* Workflow node of its workflow.
C8_NoExpressionOnlyWorkflowEdge ==
  pc = "built" =>
    \A S \in RootSteps :
      (S.label \in DOMAIN Index /\ StepExpressions(S) = {}) =>
        /\ IncomingOfType(Index[S.label], "StepToStep") = {}
        /\ Cardinality(IncomingOfType(Index[S.label], "WorkflowToStep")) = 1
        /\ \A e \in IncomingOfType(Index[S.label], "WorkflowToStep") :
             e.source \in WorkflowNodeIds

\* C8, amended: the same, for a step whose node no other step of the workflow
\* resolves to.
C8_UnsharedNoExpressionOnlyWorkflowEdge ==
  pc = "built" =>
    \A S \in RootSteps :
      (S.label \in DOMAIN Index /\ StepExpressions(S) = {} /\ Unshared(S)) =>
        /\ IncomingOfType(Index[S.label], "StepToStep") = {}
        /\ Cardinality(IncomingOfType(Index[S.label], "WorkflowToStep")) = 1
        /\ \A e \in IncomingOfType(Index[S.label], "WorkflowToStep") :
             e.source \in WorkflowNodeIds

\* A step whose only string names steps.a without the expression marker: its
\* node is entered by the WorkflowToStep edge alone.
C8_Witness ==
  /\ pc = "built"
  /\ \E S \in RootSteps :
       /\ S.label \in DOMAIN Index /\ Unshared(S)
       /\ S.inputs = VObj(<<VStr(StepsDot(<<"a">>))>>)
       /\ StepExpressions(S) = {}
       /\ "a" \in DOMAIN Index /\ Index["a"] # Index[S.label]
       /\ IncomingOfType(Index[S.label], "StepToStep") = {}
       /\ Cardinality(IncomingOfType(Index[S.label], "WorkflowToStep")) = 1

ParentNodes == {n \in SeqToSet(kgraph.graph.nodes) : n.type = "Parent"}

\* The uids of the managed resources the nodes of the built graph carry.
ManagedResourceUids ==
  UNION {{r.resource.uid : r \in SeqToSet(n.managedResources)
                                   \cup SeqToSet(n.workflowGraph.managedResources)} :
           n \in SeqToSet(kgraph.graph.nodes)}

EdgeTargets(edges, S) ==
  {edges[i].target : i \in {j \in 1..Len(edges) : edges[j].source \in S}}

RECURSIVE ReachableIn(_, _, _)
ReachableIn(edges, S, n) ==
  IF n = 0 \/ EdgeTargets(edges, S) \subseteq S THEN S
  ELSE ReachableIn(edges, S \cup EdgeTargets(edges, S), n - 1)

Acyclic(edges) ==
  \A i \in 1..Len(edges) :
    edges[i].source \notin
      ReachableIn(edges, EdgeTargets(edges, {edges[i].source}), Len(edges))

\* C9: when the parent of an instance graph is one of the managed resources,
\* the inflated graph renders the parent as parent-<id> and the resource as
\* <id>, two nodes; every edge that left the parent id leaves parent-<id>; and
\* the graph has no directed cycle.
C9_ParentAlsoManagedResource ==
  pc = "done" =>
    \A p \in ParentNodes :
      p.id \in ManagedResourceUids =>
        /\ NodeCount(inflated.nodes, "parent-" \o p.id) = 1
        /\ NodeCount(inflated.nodes, p.id) = 1
        /\ Get(inflated.nodes, p.id).managedResource
        /\ ~Get(inflated.nodes, "parent-" \o p.id).managedResource
        /\ \A ke \in SeqToSet(kgraph.graph.edges) :
             ke.source = p.id =>
               /\ Has(inflated.edges, ke.id)
               /\ Get(inflated.edges, ke.id).source = "parent-" \o p.id
        /\ OutDegree(inflated.edges, p.id) = 0
        /\ Acyclic(inflated.edges)

\* The instance is the resource of one of its own steps, and the graph holds
\* the edge from the parent to the workflow and the edge to the resource.
C9_Witness ==
  /\ pc = "done"
  /\ \E p \in ParentNodes :
       /\ p.id \in ManagedResourceUids
       /\ OutDegree(inflated.edges, "parent-" \o p.id) = 1
       /\ \E i \in 1..Len(inflated.edges) :
            inflated.edges[i].target = p.id /\ inflated.edges[i].type = "StepToResource"

\* The ref steps of the requested workflow whose Function cannot be fetched.
UnfetchedFunctionSteps ==
  {S \in RootSteps :
     /\ S.ref.present /\ S.ref.kind # "Workflow"
     /\ S.ref.name \in DOMAIN world.functions
     /\ world.functions[S.ref.name].outcome # "resolved"}

\* C10: when the Function of a step cannot be fetched the build does not
\* fail: the step gets no node and no index entry, and the other steps keep
\* theirs.
C10_UnfetchedFunctionTolerated ==
  (/\ pc \in {"built", "failed"}
   /\ request.instanceId = ""
   /\ RootWorkflow.outcome = "resolved"
   /\ UnfetchedFunctionSteps # {}) =>
    /\ pc = "built"
    /\ \A S \in UnfetchedFunctionSteps : S.label \notin DOMAIN Index
    /\ \A S \in RootSteps \ UnfetchedFunctionSteps :
         S.label \in DOMAIN Index /\ Has(kgraph.graph.nodes, Index[S.label])

\* The instance of the request is not in the cluster: its fetch did not
\* resolve.
InstanceNotFound ==
  /\ pc # "idle"
  /\ request.instanceId # ""
  /\ RootWorkflow.outcome = "resolved"
  /\ world.instances[request.instanceId].outcome # "resolved"

\* C11: an instance graph asked for an existing workflow and an instance that
\* cannot be found is the empty graph, no node and no edge, before and after
\* inflation.
C11_InstanceNotFoundYieldsEmptyGraph ==
  InstanceNotFound =>
    /\ pc # "failed"
    /\ kgraph.graph.nodes = <<>>
    /\ kgraph.graph.edges = <<>>
    /\ inflated.nodes = <<>>
    /\ inflated.edges = <<>>

\* The items of the entry of a step: those of a list, the entry itself when
\* it is one object, none otherwise.
ItemsOf(entry) ==
  IF entry.t = "arr" THEN entry.items
  ELSE IF entry.t = "obj" THEN <<entry>>
  ELSE <<>>

IsDescriptor(item) == item.t = "obj" /\ ResourceKeys \subseteq DOMAIN item.f

IsDescriptorOf(item, F) ==
  IsDescriptor(item) /\ item.f["resourceFunction"] = JStr(F)

IsNestedMapOf(item, W) ==
  /\ item.t = "obj"
  /\ ~IsDescriptor(item)
  /\ "workflow" \in DOMAIN item.f
  /\ item.f["workflow"] = JStr(W)

Selected(r) == IF r.def THEN r.list ELSE <<>>

\* The annotation of the instance of the request.
RequestedAnnotation == world.instances[request.instanceId].annotation.value

NamesOf(descriptors) == [i \in 1..Len(descriptors) |-> descriptors[i].f["name"].s]

ResourceNamesOf(managedResources) ==
  [i \in 1..Len(managedResources) |-> managedResources[i].resource.name]

\* An instance graph was built from a parsed annotation.
BuiltFromAnnotation ==
  /\ pc \in {"built", "done"}
  /\ request.instanceId # ""
  /\ \E i \in 1..Len(kgraph.graph.nodes) : kgraph.graph.nodes[i].type = "Parent"
  /\ world.instances[request.instanceId].annotation.kind = "json"

ExpandedInstanceGraph ==
  pc = "done" /\ request.expanded /\ request.instanceId # ""

InflatedEdges == SeqToSet(inflated.edges)

\* The uids of the managed resources a node of the internal graph carries.
AggregatedUids(n) == {r.resource.uid : r \in SeqToSet(n.managedResources)} \ {""}

UidLess(n) == {i \in 1..Len(n.managedResources) : n.managedResources[i].resource.uid = ""}

ResourceEdgesFrom(source) ==
  {e \in InflatedEdges : e.type = "StepToResource" /\ e.source = source}

InstanceFetched ==
  /\ pc # "idle"
  /\ request.instanceId # ""
  /\ RootWorkflow.outcome = "resolved"
  /\ world.instances[request.instanceId].outcome = "resolved"
  /\ \A f \in DOMAIN world.functions : world.functions[f].outcome = "resolved"

\* C14: parseManagedResources fails for no instance: it returns a map, the
\* empty one when the metadata has no annotations map, when the annotation is
\* absent and when its text is not JSON, and the build of the instance graph
\* goes on.
C14_ParseNeverFails ==
  InstanceFetched =>
    LET parent == world.instances[request.instanceId]
        parsed == ParseManagedResources(parent)
    IN /\ parsed.st = "ok"
       /\ parent.annotation.kind # "json" => parsed.val = DefaultManagedResources
       /\ pc # "failed"

\* The workflows a workflow refers to, as a step or as a case of a RefSwitch.
SubWorkflowRefs(name) ==
  IF name \notin DOMAIN world.workflows THEN {}
  ELSE LET steps == world.workflows[name].steps
       IN {steps[i].ref.name : i \in {j \in 1..Len(steps) :
                                        steps[j].ref.present /\ steps[j].ref.kind = "Workflow"}}
          \cup UNION {{steps[i].refSwitch.cases[k].name :
                         k \in {j \in 1..Len(steps[i].refSwitch.cases) :
                                  steps[i].refSwitch.cases[j].kind = "Workflow"}} :
                      i \in 1..Len(steps)}

RECURSIVE ReferredFrom(_, _)
ReferredFrom(names, n) ==
  IF n = 0 THEN names
  ELSE ReferredFrom(names \cup UNION {SubWorkflowRefs(x) : x \in names}, n - 1)

\* The workflows the build of the root gets to, the root among them.
BuiltWorkflows == ReferredFrom({world.root}, Cardinality(DOMAIN world.workflows))

\* A workflow the build of the root gets to refers to itself, directly or
\* through others.
CyclicReference ==
  \E x \in BuiltWorkflows :
    x \in ReferredFrom(SubWorkflowRefs(x), Cardinality(DOMAIN world.workflows))

\* C15: the build of a workflow whose sub-workflow references form a cycle
\* ends, with a failure reported to the caller.
C15_CycleEndsInFailure ==
  (CyclicReference /\ pc # "idle") => pc = "failed"

\* C16: a step that has a node of its own and for which the edge pass emits no
\* StepToStep edge, none of the labels it names being the label of a step with
\* a node, is entered by exactly one WorkflowToStep edge, from the Workflow
\* node.
C16_NoResolvedDependencyIsRoot ==
  pc = "built" =>
    \A S \in RootSteps :
      (/\ S.label \in DOMAIN Index
       /\ Unshared(S)
       /\ IncomingOfType(Index[S.label], "StepToStep") = {}) =>
        /\ Cardinality(IncomingOfType(Index[S.label], "WorkflowToStep")) = 1
        /\ \A e \in IncomingOfType(Index[S.label], "WorkflowToStep") :
             e.source \in WorkflowNodeIds

\* The ids of the RefSwitch nodes of an internal graph, at every nesting
\* level: its own, those of the graphs of its sub-workflow nodes and those of
\* the sub-workflow cases of its switches.
RECURSIVE SwitchIdsOf(_, _)
SwitchIdsOf(nodes, depth) ==
  IF depth = 0 THEN {}
  ELSE UNION {
         IF n.type = "RefSwitch"
           THEN {n.id} \cup UNION {SwitchIdsOf(<<cn.node>>, depth - 1) :
                                     cn \in SeqToSet(n.caseNodes)}
         ELSE IF n.type = "SubWorkflow"
           THEN SwitchIdsOf(n.workflowGraph.nodes, depth - 1)
         ELSE {} : n \in SeqToSet(nodes)}

AllSwitchIds == SwitchIdsOf(kgraph.graph.nodes, 2 * MaxDepth)

\* The ids the expanded graph gives the source of an internal edge.
ExpandedSources(id) ==
  IF IsKNode(id, "RefSwitch") THEN {"switchOut-" \o id}
  ELSE IF IsKNode(id, "SubWorkflow") THEN LeavesOf(id)
  ELSE {id}

\* C17: in the expanded graph every edge that entered a RefSwitch node enters
\* its switch-in node, every edge that left it leaves its switch-out node,
\* and no edge has the id of a RefSwitch node, of any nesting level, as its
\* source or its target.
C17_SwitchEdgesRedirected ==
  (pc = "done" /\ request.expanded) =>
    /\ \A e \in SeqToSet(kgraph.graph.edges) :
         /\ IsKNode(e.target, "RefSwitch") =>
              \A s \in ExpandedSources(e.source) :
                \E x \in InflatedEdges : x.source = s /\ x.target = "switchIn-" \o e.target
         /\ IsKNode(e.source, "RefSwitch") =>
              \E x \in InflatedEdges :
                x.source = "switchOut-" \o e.source /\ x.target = RenderedAs(e.target)
    /\ \A x \in InflatedEdges :
         x.source \notin AllSwitchIds /\ x.target \notin AllSwitchIds

\* C18: in every graph returned, the internal one and the inflated one of
\* either mode, the id of each edge is its source, a colon and its target.
C18_EdgeIdIsSourceColonTarget ==
  \A e \in SeqToSet(kgraph.graph.edges) \cup InflatedEdges :
    e.id = e.source \o ":" \o e.target

\* C19: the edge pass reads the label -> id index only after every step task
\* of the workflow has completed: when it has run no task is pending, and the
\* index it read is the index the tasks left.
C19_EdgePassAfterJoin ==
  phase = "returned" =>
    /\ PendingTasks = {}
    /\ result.stepNodes = build.stepNodes

\* The tasks of a workflow settled in another order than that of its steps,
\* and the edge pass that followed resolved a label to an edge.
C19_Witness ==
  /\ phase = "returned"
  /\ Len(settled) >= 2
  /\ settled[1] > settled[2]
  /\ \E e \in SeqToSet(result.graph.edges) : e.type = "StepToStep"

UniqueLabels ==
  \A i, j \in TaskIds :
    world.workflows[world.root].steps[i].label = world.workflows[world.root].steps[j].label
      => i = j

LabelledNodes(graph) == {[id |-> n.id, label |-> n.label] : n \in SeqToSet(graph.nodes)}

\* Two builds gave the same node ids, the same step label on each node, the
\* same edges and the same leaves.
SameGraph(r1, r2) ==
  /\ LabelledNodes(r1.graph) = LabelledNodes(r2.graph)
  /\ SeqToSet(r1.graph.edges) = SeqToSet(r2.graph.edges)
  /\ SeqToSet(r1.leafNodes) = SeqToSet(r2.leafNodes)

\* C20: for a workflow whose step labels are unique, and whose objects all
\* report a uid, the graph built is the same in whatever order the step tasks
\* complete: it is the graph of the tasks completing in the order of the steps.
C20_CompletionOrderIrrelevant ==
  (phase = "returned" /\ UniqueLabels /\ result.uc = 0) =>
    SameGraph(result, GetWorkflowGraph(world, world.root, "", 0))

\* The label the config step of the requested workflow goes by.
ConfigStepLabel ==
  IF RootWorkflow.configStep.label # "" THEN RootWorkflow.configStep.label ELSE "config"

\* C21: the config step a workflow declares has a node, is in the label -> id
\* index under its label, or under config when it has none, and a step whose
\* expressions name that label has a StepToStep edge from the node.
C21_ConfigStepBuilt ==
  (pc = "built" /\ RootWorkflow.configStep.present) =>
    /\ ConfigStepLabel \in DOMAIN Index
    /\ Has(kgraph.graph.nodes, Index[ConfigStepLabel])
    /\ \A S \in RootSteps :
         (S.label \in DOMAIN Index /\ References(S, ConfigStepLabel)) =>
           HasEdge(kgraph.graph.edges, Index[ConfigStepLabel], Index[S.label], "StepToStep")

\* A step or a case of the requested workflow refers to a workflow that is
\* not found, and every other fetch of the build resolves.
SubWorkflowNotFound ==
  /\ pc # "idle"
  /\ request.instanceId = ""
  /\ RootWorkflow.outcome = "resolved"
  /\ \A f \in DOMAIN world.functions : world.functions[f].outcome = "resolved"
  /\ \E x \in SubWorkflowRefs(world.root) :
       x \notin DOMAIN world.workflows \/ world.workflows[x].outcome # "resolved"

\* C22: when the workflow a sub-workflow step or a sub-workflow case refers to
\* is not found the build does not fail: the graph of the parent workflow is
\* produced, with the nodes of its other steps.
C22_MissingSubWorkflowTolerated ==
  SubWorkflowNotFound =>
    /\ pc # "failed"
    /\ \A S \in RootSteps :
         (S.ref.present /\ S.ref.kind # "Workflow") => S.label \in DOMAIN Index

\* C23: the id of a RefSwitch node depends only on the set of the ids of its
\* case nodes: two RefSwitch nodes of a graph whose cases are the same nodes
\* have the same id, whatever the order the cases are declared in.
C23_SwitchIdFromCaseSet ==
  pc = "built" =>
    \A n1, n2 \in RefSwitchNodes :
      SeqToSet(CaseNodeIds(n1.caseNodes)) = SeqToSet(CaseNodeIds(n2.caseNodes))
        => n1.id = n2.id

\* The nodes with the ids of the Workflow nodes of their sub-workflow graphs
\* blanked, at every nesting level; with labels set, their labels as well.
RECURSIVE Blanked(_, _)
BlankedGraphNodes(workflowGraph, labels) ==
  IF workflowGraph.nodes = <<>> THEN <<>>
  ELSE Blanked([workflowGraph EXCEPT
                  !.nodes[1].id = "",
                  !.nodes[1].label = IF labels THEN "" ELSE @].nodes, labels)

Blanked(nodes, labels) ==
  [i \in 1..Len(nodes) |->
     IF nodes[i].type = "SubWorkflow"
       THEN [nodes[i] EXCEPT !.workflowGraph.nodes =
               BlankedGraphNodes(nodes[i].workflowGraph, FALSE)]
     ELSE IF nodes[i].type = "RefSwitch"
       THEN [nodes[i] EXCEPT !.caseNodes =
               [k \in 1..Len(nodes[i].caseNodes) |->
                  IF nodes[i].caseNodes[k].node.type = "SubWorkflow"
                    THEN [nodes[i].caseNodes[k] EXCEPT !.node.workflowGraph.nodes =
                            BlankedGraphNodes(nodes[i].caseNodes[k].node.workflowGraph,
                                              labels)]
                    ELSE nodes[i].caseNodes[k]]]
     ELSE nodes[i]]

\* C24, as claimed: inflation leaves every field of every internal node as it
\* was, but for the id of the Workflow node of a sub-workflow graph.
C24_OnlyIdsRehomed ==
  pc = "done" => Blanked(koreoNodes, FALSE) = Blanked(kgraph.graph.nodes, FALSE)

\* C24, amended: inflation leaves every field of every internal node as it
\* was, but for the id of the Workflow node of a sub-workflow graph and the
\* label of the Workflow node of a sub-workflow that is a case of a RefSwitch;
\* the collapsed inflation changes nothing.
C24_OnlyIdsRehomedAndCasesLabelled ==
  pc = "done" =>
    /\ Blanked(koreoNodes, TRUE) = Blanked(kgraph.graph.nodes, TRUE)
    /\ ~request.expanded => koreoNodes = kgraph.graph.nodes

\* An expanded inflation re-homed the Workflow node of a sub-workflow step
\* and labelled that of a sub-workflow case.
C24_Witness ==
  /\ pc = "done"
  /\ request.expanded
  /\ \E i \in 1..Len(koreoNodes) :
       /\ koreoNodes[i].type = "RefSwitch"
       /\ \E k \in 1..Len(koreoNodes[i].caseNodes) :
            /\ koreoNodes[i].caseNodes[k].node.type = "SubWorkflow"
            /\ koreoNodes[i].caseNodes[k].node.workflowGraph.nodes[1].label
                 # kgraph.graph.nodes[i].caseNodes[k].node.workflowGraph.nodes[1].label

\* A JSON value and the values inside it.
RECURSIVE JValues(_)
JValues(v) ==
  {v} \cup (IF v.t = "obj" THEN UNION { JValues(v.f[k]) : k \in DOMAIN v.f }
            ELSE IF v.t = "arr" THEN UNION { JValues(v.items[i]) : i \in 1..Len(v.items) }
            ELSE {})

\* The values of the annotation the request classified.
ClassifiedValues ==
  IF pc \in {"built", "done"} /\ BuiltFromAnnotation
    THEN JValues(RequestedAnnotation)
    ELSE {}

Classes(v) ==
  (IF IsKubernetesResource(v) THEN {"resource"} ELSE {})
    \cup (IF IsManagedResources(v) THEN {"map"} ELSE {})
    \cup (IF IsKubernetesResourceOrManagedResourcesArray(v) THEN {"list"} ELSE {})

\* C25: every value of a managed-resources payload satisfies at most one of
\* isKubernetesResource, isManagedResources and
\* isKubernetesResourceOrManagedResourcesArray, and a keyed mapping is a
\* resource, and not a nested map, exactly when it carries all of apiVersion,
\* kind, name, readonly and resourceFunction.
C25_ClassificationUnambiguous ==
  \A v \in ClassifiedValues :
    /\ Cardinality(Classes(v)) <= 1
    /\ v.t = "obj" =>
         Classes(v) = IF ResourceKeys \subseteq DOMAIN v.f THEN {"resource"}
                                                           ELSE {"map"}

\* The payload classified held a mapping with some of the five keys, one with
\* all of them, and a list.
C25_Witness ==
  /\ \E v \in ClassifiedValues :
       /\ v.t = "obj"
       /\ DOMAIN v.f \cap ResourceKeys # {}
       /\ ~(ResourceKeys \subseteq DOMAIN v.f)
       /\ Classes(v) = {"map"}
  /\ \E v \in ClassifiedValues : Classes(v) = {"resource"}
  /\ \E v \in ClassifiedValues : Classes(v) = {"list"}

\* The ids of the nodes of the inflated graph returned.
InflatedNodeIds == NodeIdsOf(inflated.nodes)

\* C26: in the expanded inflated graph of a workflow the source and the target
\* of every edge are ids of nodes of the node list of that graph.
C26_ExpandedEdgesClosed ==
  (pc = "done" /\ request.expanded) =>
    \A e \in InflatedEdges :
      e.source \in InflatedNodeIds /\ e.target \in InflatedNodeIds

\* C27: in the internal graph getWorkflowGraph returns, and in the collapsed
\* inflated graph of it, with an instance and without, the source and the
\* target of every edge are ids of nodes of the same graph.
C27_CollapsedEdgesClosed ==
  /\ pc \in {"built", "done"} =>
       \A e \in SeqToSet(kgraph.graph.edges) :
         /\ e.source \in NodeIdsOf(kgraph.graph.nodes)
         /\ e.target \in NodeIdsOf(kgraph.graph.nodes)
  /\ (pc = "done" /\ ~request.expanded) =>
       \A e \in InflatedEdges :
         e.source \in InflatedNodeIds /\ e.target \in InflatedNodeIds


\* A collapsed graph of an instance was returned: the edge of the parent node
\* and the edges to the managed resources are among its edges.
C27_Witness ==
  /\ pc = "done" /\ ~request.expanded /\ request.instanceId # ""
  /\ \E e \in InflatedEdges : e.type = "StepToResource"
  /\ \E e \in InflatedEdges : e.type = "StepToStep"
  /\ \E i \in 1..Len(kgraph.graph.nodes) :
       /\ kgraph.graph.nodes[i].type = "Parent"
       /\ kgraph.graph.nodes[i].id \notin InflatedNodeIds
       /\ \E e \in SeqToSet(kgraph.graph.edges) : e.source = kgraph.graph.nodes[i].id


\* The WorkflowToStep and StepToStep edges of the graph built.
StepEdges ==
  SelectSeq(kgraph.graph.edges, LAMBDA e : e.type \in {"WorkflowToStep", "StepToStep"})

\* C28: in the internal graph of a workflow that was found, every step node,
\* every id of the index, is reachable from the Workflow node along
\* WorkflowToStep and StepToStep edges.
C28_StepNodesReachable ==
  (pc \in {"built", "done"} /\ WorkflowNodeIds # {}) =>
    IndexIds \subseteq ReachableIn(StepEdges, WorkflowNodeIds, Len(StepEdges) + 1)

\* C29: whenever the graph built for a workflow has a step node, its set of
\* leaf nodes is not empty.
C29_LeavesNotEmpty ==
  (pc \in {"built", "done"} /\ IndexIds # {}) => kgraph.leafNodes # <<>>


\* The step of InflateGraphCall, which is enabled whenever a graph was built.
InflateGraphRuns == pc = "built" /\ pc' = "done"

\* Once the awaited build has resolved, the continuation that inflates the
\* graph is run: the event loop leaves no ready continuation waiting.
LiveSpec == Spec /\ WF_pc(InflateGraphRuns)

\* The build of an acyclic set of workflows never keeps its caller waiting.
AcyclicBuildSettles == ~CyclicReference => pc # "pending"

\* C30: for workflows whose sub-workflow references, direct and through the
\* cases of a RefSwitch, are acyclic, and whose fetches are all answered,
\* a request ends and returns a graph.
C30_AcyclicRequestReturnsGraph ==
  [](( ~CyclicReference /\ pc # "idle") => <>(pc = "done"))

====
